---------------------------- MODULE Spec2Model ----------------------------
(***************************************************************************)
(* Model of the orchestration core of AINew: SchedulerManager              *)
(* (src/scheduler_manager.py) and the chunking of FeishuSender             *)
(* (src/analysis/feishu_sender.py).                                        *)
(*                                                                         *)
(* run_pipeline is invoked on threads: every trigger callback              *)
(* (run_pipeline_sync) runs on a worker thread of the BackgroundScheduler  *)
(* with an event loop of its own, a manual call runs on its caller's       *)
(* thread.  One action is one stretch of run_pipeline between two awaits;  *)
(* the guard `if self.is_running` and the assignment                       *)
(* `self.is_running = True` are two actions, since no lock joins them.     *)
(*                                                                         *)
(* Spec explores every schedule of the threads, and of the schedules in    *)
(* which two runs are in flight together the first MaxOverlapSteps steps.  *)
(* FairSpec is the schedules in which no thread is pre-empted between the  *)
(* guard and the assignment, with every thread that can step stepping.     *)
(* SplitSpec applies _split_content to every content and bound within the  *)
(* bounds.  SchedSpec is every sequence of start, stop, update_schedule    *)
(* and get_status calls on a constructed manager, ApplySpec applies        *)
(* _apply_schedule to every list of trigger times within the bounds, and   *)
(* LoadSpec runs load_config on every configuration file within them and   *)
(* LimitSpec _limit_reference_links on every document within them.         *)
(* CardSpec is the loop of send_markdown over the chunks of a text, and    *)
(* UpdateSpec the runs of FairSpec with update_schedule calls made while   *)
(* they go on.                                                             *)
(*                                                                         *)
(* A report is the sequence of its lines; a delivery records the payloads  *)
(* the sender posts, the card payloads being the chunks of the text that   *)
(* _convert_markdown_to_feishu_format makes of the report.                 *)
(***************************************************************************)
EXTENDS Integers, Sequences, FiniteSets

VARIABLES
    is_running,        \* SchedulerManager.is_running
    current_status,    \* SchedulerManager.current_status
    pipeline_steps,    \* SchedulerManager.pipeline_steps
    feishu_webhooks,   \* SchedulerManager.feishu_webhooks
    days_to_crawl,     \* SchedulerManager.days_to_crawl
    pc,                \* per invocation: the await it is suspended at
    news_items,        \* per invocation: local news_items (empty or not)
    report_content,    \* per invocation: local report_content, its lines
    webhooks_iter,     \* per invocation: the list object a for loop iterates
    idx,               \* per invocation: position of that for loop
    calls,             \* per invocation: collaborators invoked so far, in order
    sent,              \* per invocation: delivery attempts so far, in order
    result,            \* per invocation: how it returned
    overlap,           \* steps taken so far with two runs in flight
    content,           \* _split_content: argument content
    max_length,        \* _split_content: argument max_length
    chunks,            \* _split_content: the returned list
    split_pc,          \* _split_content: "call" before it ran, "return" after
    schedule_times,    \* SchedulerManager.schedule_times
    scheduler_running, \* SchedulerManager.scheduler.running
    jobs,              \* the jobs SchedulerManager.scheduler.get_jobs() returns
    config_file,       \* the file scheduler_config.json
    now,               \* wall-clock time, in minutes since midnight
    ret,               \* the last call on the manager and how it ended
    document,          \* _limit_reference_links: the lines of content
    link_limit,        \* _limit_reference_links: argument limit
    limited,           \* _limit_reference_links: the lines of the result
    limit_pc,          \* _limit_reference_links: "call" before, "return" after
    days_used,         \* per invocation: the lookback values it has read
    card_text,         \* send_markdown: the lines of argument content
    chunk_list,        \* send_markdown: local chunks
    card_i,            \* send_markdown: position of the loop over chunks
    posted,            \* send_markdown: the posts and pauses so far
    card_pc            \* send_markdown: the statement it stands at

vars == <<is_running, current_status, pipeline_steps, feishu_webhooks,
          days_to_crawl, pc, news_items, report_content, webhooks_iter, idx,
          calls, sent, result, overlap, content, max_length, chunks,
          split_pc, schedule_times, scheduler_running, jobs, config_file,
          now, ret, document, link_limit, limited, limit_pc, days_used,
          card_text, chunk_list, card_i, posted, card_pc>>

runVars == <<is_running, current_status, pipeline_steps, feishu_webhooks,
             days_to_crawl, pc, news_items, report_content, webhooks_iter,
             idx, calls, sent, result, overlap, days_used>>

splitVars == <<content, max_length, chunks, split_pc>>

schedVars == <<schedule_times, scheduler_running, jobs, config_file, now, ret>>

limitVars == <<document, link_limit, limited, limit_pc>>

cardVars == <<card_text, chunk_list, card_i, posted, card_pc>>

-----------------------------------------------------------------------------
(* Bounds *)

\* number of threads that may invoke run_pipeline
NumThreads == 2
\* steps explored while two runs are in flight together
MaxOverlapSteps == 6
\* longest destination list of a configuration
MaxWebhooks == 2
\* longest content handed to _split_content
MaxContentLen == 5
\* largest max_length handed to _split_content
MaxMaxLength == 4
\* longest list of trigger times
MaxTimes == 2
\* most lines of a document handed to _limit_reference_links
MaxDocLines == 4
\* largest limit handed to _limit_reference_links
MaxLimit == 2
\* most characters of a card, the 40000 of send_markdown brought to scale
MaxCardLength == 20

Threads == 1..NumThreads

-----------------------------------------------------------------------------
(* Destinations.  A URL is the sequence of its path segments; the test     *)
(* `"flow/api/trigger-webhook" in webhook` is a search for the segments.   *)

FlowMarker == <<"flow", "api", "trigger-webhook">>

FlowUrl == <<"x", "flow", "api", "trigger-webhook", "1">>

CardUrl == <<"x", "card", "2">>

Urls == {FlowUrl, CardUrl}

IsFlow(webhook) ==
    \E i \in 1..Len(webhook) :
        /\ i + Len(FlowMarker) - 1 <= Len(webhook)
        /\ SubSeq(webhook, i, i + Len(FlowMarker) - 1) = FlowMarker

WebhookLists == UNION {[1..n -> Urls] : n \in 0..MaxWebhooks}

-----------------------------------------------------------------------------
(* The step log.  The timestamp of an entry is wall-clock time and is not  *)
(* modelled; contents are the fixed texts, a formatted count is dropped.   *)

Step(text, type, label) == [type |-> type, content |-> text, label |-> label]

add_step(steps, text, type) == Append(steps, Step(text, type, "None"))

add_labelled_step(steps, text, type, label) ==
    Append(steps, Step(text, type, label))

StatusIdle == <<"Idle">>

StatusStarting == <<"Starting pipeline...">>

StatusInitDb == <<"Initializing Database...">>

StatusCrawling == <<"Running Crawlers...">>

StatusGenerating == <<"Generating Report...">>

StatusSending == <<"Sending to Feishu...">>

StatusCompleted == <<"Completed">>

StatusError(msg) == <<"Error", msg>>

\* the collaborators run_pipeline awaits, in the order of the source
Awaited == {"init_db", "run_all_crawlers", "fetch_articles_from_db",
            "step1_filter", "step2_cluster", "step3_deduplicate",
            "step4_rank", "step5_fetch_arxiv_papers",
            "generate_final_report", "mark_articles_as_reported"}

-----------------------------------------------------------------------------
(* Trigger times.  A time string is the sequence of its characters.        *)

Blank == " "

\* the instants the clock is read at: just after 00:00 and just after 09:30
Instants == {0, 9 * 60 + 30}

DayMinutes == 24 * 60

T0930 == <<"0", "9", ":", "3", "0">>

T2359 == <<"2", "3", ":", "5", "9">>

T2500 == <<"2", "5", ":", "0", "0">>

T0960 == <<"0", "9", ":", "6", "0">>

TNoColon == <<"0", "9", "3", "0">>

TSeconds == <<"0", "9", ":", "3", "0", ":", "0", "0">>

TLetters == <<"a", "b", ":", "c", "d">>

TSigned == <<"+", "9", ":", "3", "0">>

TNegative == <<"-", "1", ":", "3", "0">>

TInnerBlank == <<"0", "9", ":", Blank, "3", "0">>

TPadded == <<Blank, "2", "3", ":", "5", "9", Blank>>

TBlank == <<Blank>>

TEmpty == <<>>

\* the trigger times a caller hands to update_schedule
TimeStrings == {T0930, T2500, TPadded, TBlank}

\* the entries a list handed to _apply_schedule can hold
TimeEntries ==
    {T0930, T2359, T2500, T0960, TNoColon, TSeconds, TLetters, TSigned,
     TNegative, TInnerBlank, TEmpty}

TimeLists == UNION {[1..n -> TimeStrings] : n \in 0..MaxTimes}

EntryLists == UNION {[1..n -> TimeEntries] : n \in 0..MaxTimes}

\* str.strip(): the text without its leading and trailing blanks
strip(text) ==
    LET inked == {i \in 1..Len(text) : text[i] # Blank}
    IN  IF inked = {}
        THEN <<>>
        ELSE SubSeq(text,
                    CHOOSE i \in inked : \A j \in inked : i <= j,
                    CHOOSE i \in inked : \A j \in inked : j <= i)

\* [x.strip() for x in list if x.strip()]
RECURSIVE strip_all(_)
strip_all(list) ==
    IF list = <<>>
    THEN <<>>
    ELSE IF strip(Head(list)) = <<>>
         THEN strip_all(Tail(list))
         ELSE <<strip(Head(list))>> \o strip_all(Tail(list))

\* str.split(':'): the pieces between the colons, the empty ones too
RECURSIVE split_colon(_)
split_colon(text) ==
    IF \A i \in 1..Len(text) : text[i] # ":"
    THEN <<text>>
    ELSE LET i == CHOOSE k \in 1..Len(text) :
                      /\ text[k] = ":"
                      /\ \A j \in 1..(k - 1) : text[j] # ":"
         IN  <<SubSeq(text, 1, i - 1)>>
                 \o split_colon(SubSeq(text, i + 1, Len(text)))

Digits == {"0", "1", "2", "3", "4", "5", "6", "7", "8", "9"}

DigitValue(c) ==
    CASE c = "0" -> 0 [] c = "1" -> 1 [] c = "2" -> 2 [] c = "3" -> 3
      [] c = "4" -> 4 [] c = "5" -> 5 [] c = "6" -> 6 [] c = "7" -> 7
      [] c = "8" -> 8 [] c = "9" -> 9

RECURSIVE digits_value(_)
digits_value(text) ==
    IF text = <<>>
    THEN 0
    ELSE digits_value(SubSeq(text, 1, Len(text) - 1)) * 10
             + DigitValue(text[Len(text)])

\* int(text): blanks around the number and a sign before it are accepted;
\* anything else that is not a digit raises ValueError
int(text) ==
    LET t == strip(text)
        signed == t # <<>> /\ t[1] \in {"+", "-"}
        body == IF signed THEN Tail(t) ELSE t
    IN  IF body = <<>> \/ \E i \in 1..Len(body) : body[i] \notin Digits
        THEN [raised |-> "ValueError", value |-> 0]
        ELSE [raised |-> "None",
              value |-> IF signed /\ t[1] = "-"
                        THEN 0 - digits_value(body)
                        ELSE digits_value(body)]

\* CronTrigger(hour=hour, minute=minute): a field out of its range raises
\* ValueError
CronTrigger(hour, minute) ==
    IF hour \in 0..23 /\ minute \in 0..59
    THEN [raised |-> "None", hour |-> hour, minute |-> minute]
    ELSE [raised |-> "ValueError", hour |-> 0, minute |-> 0]

\* `hour, minute = map(int, time_str.split(':'))` and the trigger made of
\* them; the unpacking of other than two pieces raises ValueError
parse_time(time_str) ==
    LET pieces == split_colon(time_str)
    IN  IF Len(pieces) # 2
        THEN [raised |-> "ValueError", hour |-> 0, minute |-> 0]
        ELSE LET hour == int(pieces[1])
                 minute == int(pieces[2])
             IN  IF hour.raised # "None" \/ minute.raised # "None"
                 THEN [raised |-> "ValueError", hour |-> 0, minute |-> 0]
                 ELSE CronTrigger(hour.value, minute.value)

\* the next time of day hour:minute after the instant t
next_fire_time(hour, minute, t) ==
    IF hour * 60 + minute > t
    THEN hour * 60 + minute
    ELSE hour * 60 + minute + DayMinutes

\* the job add_job makes: it has a next_run_time once the scheduler really
\* added it, and none while it waits for the scheduler to start
Job(i, trigger, running, t) ==
    [id |-> <<"daily_report_job", i>>,
     hour |-> trigger.hour,
     minute |-> trigger.minute,
     next_run_time |->
         IF running
         THEN <<next_fire_time(trigger.hour, trigger.minute, t)>>
         ELSE <<>>]

\* add_job(..., replace_existing=True)
add_job(store, job) == {j \in store : j.id # job.id} \cup {job}

\* the loop `for job in self.scheduler.get_jobs(): remove_job(job.id)`
remove_jobs(store) == {j \in store : j.id \notin {k.id : k \in store}}

\* a loop without the try: the ValueError of the first malformed entry
\* leaves the method
RECURSIVE apply_loop_unguarded(_, _, _, _, _)
apply_loop_unguarded(times, k, store, running, t) ==
    IF k > Len(times)
    THEN [jobs |-> store, raised |-> "None"]
    ELSE LET trigger == parse_time(times[k])
         IN  IF times[k] = <<>>
             THEN apply_loop_unguarded(times, k + 1, store, running, t)
             ELSE IF trigger.raised # "None"
                  THEN [jobs |-> store, raised |-> trigger.raised]
                  ELSE apply_loop_unguarded(times, k + 1,
                           add_job(store, Job(k - 1, trigger, running, t)),
                           running, t)

\* the loop over enumerate(self.schedule_times), from position k on: the
\* jobs after it and what it raised; `except ValueError` goes on with the
\* next entry
RECURSIVE apply_loop(_, _, _, _, _)
apply_loop(times, k, store, running, t) ==
    IF k > Len(times)
    THEN [jobs |-> store, raised |-> "None"]
    ELSE LET trigger == parse_time(times[k])
         IN  IF times[k] = <<>> \/ trigger.raised = "ValueError"
             THEN apply_loop(times, k + 1, store, running, t)
             ELSE IF trigger.raised # "None"
                  THEN [jobs |-> store, raised |-> trigger.raised]
                  ELSE apply_loop(times, k + 1,
                           add_job(store, Job(k - 1, trigger, running, t)),
                           running, t)

\* a rebuild that leaves the jobs of the earlier configuration in place
apply_schedule_keeps(store, times, running, t) ==
    apply_loop(times, 1, store, running, t)

\* _apply_schedule: the jobs of the scheduler after it, and what it raised
apply_schedule(store, times, running, t) ==
    apply_loop(times, 1, remove_jobs(store), running, t)

-----------------------------------------------------------------------------
(* The configuration file.  A key of the JSON object is <<>> when the      *)
(* object lacks it and <<v>> when it holds the value v.                    *)

ConfigRecord(kind, webhooks, webhook, times, time, days) ==
    [kind |-> kind, feishu_webhooks |-> webhooks, feishu_webhook |-> webhook,
     schedule_times |-> times, schedule_time |-> time,
     days_to_crawl |-> days]

\* no file of that name
AbsentFile == ConfigRecord("absent", <<>>, <<>>, <<>>, <<>>, <<>>)

\* a file json.load raises on
CorruptFile == ConfigRecord("corrupt", <<>>, <<>>, <<>>, <<>>, <<>>)

\* the lookback days a configuration holds
Days == {1, 7}

\* the files load_config is run on
ConfigFiles ==
    {AbsentFile, CorruptFile} \cup
    {ConfigRecord("json", webhooks, webhook, times, time, days) :
        webhooks \in {<<>>, <<<<>>>>, <<<<CardUrl>>>>},
        webhook \in {<<>>, <<<<>>>>, <<FlowUrl>>},
        times \in {<<>>, <<<<>>>>, <<<<T0930>>>>},
        time \in {<<>>, <<<<>>>>, <<T2359>>},
        days \in {<<>>} \cup {<<d>> : d \in Days}}

\* config.get(key, default)
get(value, default) == IF value = <<>> THEN default ELSE value[1]

\* a load in which the legacy scalar, when present, replaces the list
load_config_legacy_first(file, webhooks, times, days) ==
    IF file.kind # "json"
    THEN [feishu_webhooks |-> webhooks, schedule_times |-> times,
          days_to_crawl |-> days]
    ELSE [feishu_webhooks |->
              IF get(file.feishu_webhook, <<>>) # <<>>
              THEN <<get(file.feishu_webhook, <<>>)>>
              ELSE get(file.feishu_webhooks, <<>>),
          schedule_times |->
              IF get(file.schedule_time, <<>>) # <<>>
              THEN <<get(file.schedule_time, <<>>)>>
              ELSE get(file.schedule_times, <<>>),
          days_to_crawl |-> get(file.days_to_crawl, 1)]

\* load_config: the three fields after it, given what they held before; an
\* absent file is not read, and a file json.load raises on is logged
load_config(file, webhooks, times, days) ==
    IF file.kind # "json"
    THEN [feishu_webhooks |-> webhooks, schedule_times |-> times,
          days_to_crawl |-> days]
    ELSE [feishu_webhooks |->
              IF get(file.feishu_webhooks, <<>>) = <<>>
                 /\ get(file.feishu_webhook, <<>>) # <<>>
              THEN <<get(file.feishu_webhook, <<>>)>>
              ELSE get(file.feishu_webhooks, <<>>),
          schedule_times |->
              IF get(file.schedule_times, <<>>) = <<>>
                 /\ get(file.schedule_time, <<>>) # <<>>
              THEN <<get(file.schedule_time, <<>>)>>
              ELSE get(file.schedule_times, <<>>),
          days_to_crawl |-> get(file.days_to_crawl, 1)]

\* the object save_config dumps
saved_config(webhooks, times, days) ==
    ConfigRecord("json", <<webhooks>>, <<>>, <<times>>, <<>>, <<days>>)

\* how the write of save_config can end: the file is written; open()
\* raises and the file stays as it was; or the write raises after open()
\* truncated the file
WriteOutcomes == {"written", "open raised", "dump raised"}

\* save_config: the file after it and the line it logs; what the write
\* raises is caught and logged
save_config(file, webhooks, times, days, outcome) ==
    CASE outcome = "written" ->
             [file |-> saved_config(webhooks, times, days),
              logged |-> "Config saved to file"]
      [] outcome = "open raised" ->
             [file |-> file, logged |-> "Failed to save config"]
      [] outcome = "dump raised" ->
             [file |-> CorruptFile, logged |-> "Failed to save config"]

-----------------------------------------------------------------------------
(* FeishuSender._split_content.  A text is the sequence of its characters. *)

NL == "\n"

Chars == {"a", NL}

Texts == UNION {[1..n -> Chars] : n \in 0..MaxContentLen}

\* str.split('\n'): the pieces between the newlines, the empty ones too
RECURSIVE split_newline(_)
split_newline(text) ==
    IF \A i \in 1..Len(text) : text[i] # NL
    THEN <<text>>
    ELSE LET i == CHOOSE k \in 1..Len(text) :
                      /\ text[k] = NL
                      /\ \A j \in 1..(k - 1) : text[j] # NL
         IN  <<SubSeq(text, 1, i - 1)>>
                 \o split_newline(SubSeq(text, i + 1, Len(text)))

\* the for loop over lines from position k on, then the final append
RECURSIVE split_loop(_, _, _, _, _)
split_loop(lines, k, limit, acc, current_chunk) ==
    IF k > Len(lines)
    THEN IF current_chunk # <<>> THEN Append(acc, current_chunk) ELSE acc
    ELSE IF Len(current_chunk) + Len(lines[k]) + 1 > limit
         THEN split_loop(lines, k + 1, limit, Append(acc, current_chunk),
                         Append(lines[k], NL))
         ELSE split_loop(lines, k + 1, limit, acc,
                         Append(current_chunk \o lines[k], NL))

\* a first test that is strict: a content of exactly the bound is split
split_content_strict(text, limit) ==
    IF Len(text) < limit
    THEN <<text>>
    ELSE split_loop(split_newline(text), 1, limit, <<>>, <<>>)

split_content(text, limit) ==
    IF Len(text) <= limit
    THEN <<text>>
    ELSE split_loop(split_newline(text), 1, limit, <<>>, <<>>)

-----------------------------------------------------------------------------
(* FeishuSender._limit_reference_links.  A document is the sequence of its *)
(* lines (the text between two newlines), a line the sequence of its       *)
(* characters; "R" stands for the word of the further-reading heading.     *)

RefHeading == <<"#", "#", Blank, "R">>

OtherHeading == <<"#", "#", Blank, "S">>

SubHeading == <<"#", "#", "#", Blank, "A">>

Link1 == <<"*", Blank, "1">>

Link2 == <<Blank, "*", Blank, "2">>

Prose == <<"t">>

EmptyLine == <<>>

Lines == {RefHeading, OtherHeading, SubHeading, Link1, Link2, Prose, EmptyLine}

Documents == UNION {[1..n -> Lines] : n \in 1..MaxDocLines}

Limits == 1..MaxLimit

\* `"## 拓展阅读" not in content`, on one line
contains_ref(line) ==
    \E i \in 1..Len(line) :
        /\ i + 3 <= Len(line)
        /\ SubSeq(line, i, i + 3) = <<"#", "#", Blank, "R">>

\* the pattern ^##\s+拓展阅读.*$
is_ref_header(line) ==
    /\ Len(line) >= 4
    /\ line[1] = "#"
    /\ line[2] = "#"
    /\ \E k \in 3..(Len(line) - 1) :
          /\ \A i \in 3..k : line[i] = Blank
          /\ line[k + 1] = "R"

\* the pattern ^###\s+.+$
is_sub_header(line) ==
    /\ Len(line) >= 5
    /\ SubSeq(line, 1, 3) = <<"#", "#", "#">>
    /\ line[4] = Blank

\* `stripped.startswith('*')`
is_link(line) == strip(line) # <<>> /\ strip(line)[1] = "*"

is_non_link(line) == ~is_link(line) /\ strip(line) # <<>>

\* links[:limit]
first(list, limit) ==
    SubSeq(list, 1, IF Len(list) < limit THEN Len(list) ELSE limit)

\* what one pass of the loop adds for a sub-section: header, "\n", the
\* limited links joined, "\n", the other lines joined and "\n" if there are
\* any, and "\n"
sub_section(header, body, limit) ==
    LET links == first(SelectSeq(body, is_link), limit)
    IN  <<header>>
            \o (IF links = <<>> THEN <<EmptyLine>> ELSE links)
            \o SelectSeq(body, is_non_link)
            \o <<EmptyLine>>

\* the loop over the sub-sections of the lines from position k on, k the
\* position of a sub-section header
RECURSIVE sub_sections(_, _, _)
sub_sections(lines, k, limit) ==
    LET later == {i \in (k + 1)..Len(lines) : is_sub_header(lines[i])}
        next == IF later = {}
                THEN Len(lines) + 1
                ELSE CHOOSE i \in later : \A j \in later : i <= j
    IN  sub_section(lines[k], SubSeq(lines, k + 1, next - 1), limit)
            \o (IF later = {}
                THEN <<EmptyLine>>
                ELSE sub_sections(lines, next, limit))

\* _limit_reference_links: the lines of the returned text.  The section is
\* everything after the last further-reading heading; re.split cuts it at
\* the sub-section headers.
limit_reference_links(lines, limit) ==
    LET refs == {i \in 1..Len(lines) : is_ref_header(lines[i])}
        r == CHOOSE i \in refs : \A j \in refs : j <= i
        subs == {i \in (r + 1)..Len(lines) : is_sub_header(lines[i])}
        first_sub == CHOOSE i \in subs : \A j \in subs : i <= j
    IN  IF \A i \in 1..Len(lines) : ~contains_ref(lines[i])
        THEN lines
        ELSE IF refs = {} \/ subs = {}
             THEN lines
             ELSE SubSeq(lines, 1, first_sub - 1)
                      \o sub_sections(lines, first_sub, limit)

-----------------------------------------------------------------------------
(* FeishuSender._convert_markdown_to_feishu_format, on the lines of a      *)
(* text; "O" stands for the word of the overview heading.  The texts of    *)
(* the model hold no heading of the fourth level, no blockquote and no     *)
(* source link: the substitutions for those find nothing in them.          *)

\* limit=5 in the call of _limit_reference_links
ReferenceLimit == 5

Title == <<"#", Blank, "T">>

OverviewHeading == <<"#", "#", Blank, "O">>

Rule == <<"-", "-", "-">>

\* the line of fourteen box-drawing dashes replace_h2 puts above a heading;
\* "_" stands for the dash
Separator == [i \in 1..14 |-> "_"]

\* the emoji in front of a heading of the third level, two code points
Sparkle == <<"e", "v">>

\* the regular expression ^#{level}\s+(.+)$ matches the line
is_heading(line, level) ==
    /\ Len(line) > level + 1
    /\ \A i \in 1..level : line[i] = "#"
    /\ line[level + 1] = Blank

\* clean_bold: text.strip().strip('*')
clean_bold(text) ==
    LET stripped == strip(text)
        inked == {i \in 1..Len(stripped) : stripped[i] # "*"}
    IN  IF inked = {}
        THEN <<>>
        ELSE SubSeq(stripped,
                    CHOOSE i \in inked : \A j \in inked : i <= j,
                    CHOOSE i \in inked : \A j \in inked : j <= i)

\* f"**{clean_bold(m.group(1))}**"
bold(line, level) ==
    <<"*", "*">> \o clean_bold(SubSeq(line, level + 1, Len(line)))
                 \o <<"*", "*">>

\* re.sub(r'^#\s+(.+)(\n+)?', '', content, count=1): the first heading of
\* the first level goes, and the newlines after it
remove_first_h1(lines) ==
    LET h1 == {i \in 1..Len(lines) : is_heading(lines[i], 1)}
    IN  IF h1 = {}
        THEN lines
        ELSE LET i == CHOOSE k \in h1 : \A j \in h1 : k <= j
                 rest == {j \in (i + 1)..Len(lines) : lines[j] # <<>>}
             IN  SubSeq(lines, 1, i - 1) \o
                     (IF rest = {}
                      THEN <<EmptyLine>>
                      ELSE SubSeq(lines,
                                  CHOOSE k \in rest : \A j \in rest : k <= j,
                                  Len(lines)))

\* the substitutions for a rule and for the headings: the lines that
\* stand in the place of one line
replace_line(line) ==
    IF strip(line) = Rule
    THEN <<EmptyLine>>
    ELSE IF is_heading(line, 1)
    THEN <<bold(line, 1), EmptyLine>>
    ELSE IF is_heading(line, 2)
    THEN IF \E i \in 1..Len(line) : line[i] = "O"
         THEN <<bold(line, 2), EmptyLine>>
         ELSE <<EmptyLine, Separator, bold(line, 2), EmptyLine>>
    ELSE IF is_heading(line, 3)
    THEN <<EmptyLine, EmptyLine, Sparkle \o <<Blank>> \o bold(line, 3),
           EmptyLine>>
    ELSE <<line>>

RECURSIVE replace_lines(_)
replace_lines(lines) ==
    IF lines = <<>>
    THEN <<>>
    ELSE replace_line(Head(lines)) \o replace_lines(Tail(lines))

\* re.sub(r'\n{3,}', '\n\n', content): of the empty lines in a row one stays
RECURSIVE collapse_newlines(_)
collapse_newlines(lines) ==
    IF Len(lines) < 2
    THEN lines
    ELSE IF lines[1] = <<>> /\ lines[2] = <<>>
         THEN collapse_newlines(Tail(lines))
         ELSE <<Head(lines)>> \o collapse_newlines(Tail(lines))

\* str.lstrip()
lstrip(text) ==
    LET inked == {i \in 1..Len(text) : text[i] # Blank}
    IN  IF inked = {}
        THEN <<>>
        ELSE SubSeq(text, CHOOSE i \in inked : \A j \in inked : i <= j,
                    Len(text))

\* str.rstrip()
rstrip(text) ==
    LET inked == {i \in 1..Len(text) : text[i] # Blank}
    IN  IF inked = {}
        THEN <<>>
        ELSE SubSeq(text, 1, CHOOSE i \in inked : \A j \in inked : j <= i)

\* content.strip() on the lines of content: the blank lines at both ends
\* go, and the blanks that begin the first line and end the last; the
\* empty text has no line
strip_text(lines) ==
    LET inked == {i \in 1..Len(lines) : strip(lines[i]) # <<>>}
    IN  IF inked = {}
        THEN <<>>
        ELSE LET body == SubSeq(lines,
                             CHOOSE i \in inked : \A j \in inked : i <= j,
                             CHOOSE i \in inked : \A j \in inked : j <= i)
             IN  [i \in 1..Len(body) |->
                     IF i = 1 /\ i = Len(body) THEN strip(body[i])
                     ELSE IF i = 1 THEN lstrip(body[i])
                     ELSE IF i = Len(body) THEN rstrip(body[i])
                     ELSE body[i]]

\* _convert_markdown_to_feishu_format: the lines of the formatted text
convert_markdown_to_feishu_format(lines) ==
    strip_text(collapse_newlines(replace_lines(remove_first_h1(
        limit_reference_links(lines, ReferenceLimit)))))

\* "\n".join(lines): the characters of a text
RECURSIVE join_lines(_)
join_lines(lines) ==
    IF lines = <<>>
    THEN <<>>
    ELSE IF Len(lines) = 1
         THEN lines[1]
         ELSE Append(lines[1], NL) \o join_lines(Tail(lines))

-----------------------------------------------------------------------------
(* The payloads a sender posts.  A payload is its message type, the place  *)
(* of the card among the cards of the text and the text it carries; the    *)
(* title and the timestamps are dropped.                                   *)

\* send_to_flow: one payload with the text as it was given
send_to_flow(text) ==
    <<[msg_type |-> "text", part |-> 1, parts |-> 1,
       text |-> join_lines(text)]>>

\* a send_markdown that posts the text as it was given
send_markdown_raw(text) ==
    LET card_chunks == split_content(join_lines(text), MaxCardLength)
    IN  [i \in 1..Len(card_chunks) |->
            [msg_type |-> "interactive", part |-> i,
             parts |-> Len(card_chunks), text |-> card_chunks[i]]]

\* send_markdown: one card for every chunk of the formatted text
send_markdown(text) ==
    LET formatted == join_lines(convert_markdown_to_feishu_format(text))
        card_chunks == split_content(formatted, MaxCardLength)
    IN  [i \in 1..Len(card_chunks) |->
            [msg_type |-> "interactive", part |-> i,
             parts |-> Len(card_chunks), text |-> card_chunks[i]]]

\* report_content when generate_final_report returned None or the empty
\* text, which `if report_content` does not tell apart
NoReport == <<>>

\* a report of one card
ShortReport == <<Title, Prose>>

\* a report of several cards
LongReport == <<Title, EmptyLine, OverviewHeading, Prose, Rule, RefHeading,
                SubHeading, Link1, Link2>>

Reports == {ShortReport, LongReport}

\* f"Pipeline failed: {str(e)}", the message of the exception dropped
FailureText == <<<<"P", "i", "p", "e", "l", "i", "n", "e", Blank,
                   "f", "a", "i", "l", "e", "d">>>>

\* what the senders post of each text a run hands to them
Posted ==
    [text \in Reports \cup {FailureText} |->
        [flow |-> send_to_flow(text), card |-> send_markdown(text)]]

\* what one delivery attempt can do: succeed, fail in transport (caught in
\* the sender), answer a non-zero code (logged in the sender), or raise out
\* of the sender
Outcomes == {"ok", "fault", "code", "raise"}

Shape(webhook) == IF IsFlow(webhook) THEN "flow" ELSE "card"

\* one pass of a loop over the destinations: the sender for the URL, and
\* send_to_flow or send_markdown by the test on the URL; a pass that
\* raises has posted nothing
Attempt(webhook, kind, outcome, text) ==
    [url |-> webhook, shape |-> Shape(webhook), kind |-> kind,
     outcome |-> outcome,
     payloads |-> IF outcome = "raise"
                  THEN <<>>
                  ELSE IF IsFlow(webhook)
                       THEN Posted[text].flow
                       ELSE Posted[text].card]

-----------------------------------------------------------------------------
(* Initial state: SchedulerManager.__init__, whose load_config reads the   *)
(* destinations and the lookback from the configuration file.              *)

InitRun ==
    /\ is_running = FALSE
    /\ current_status = StatusIdle
    /\ pipeline_steps = <<>>
    /\ feishu_webhooks \in WebhookLists
    /\ days_to_crawl = 1
    /\ pc = [p \in Threads |-> "idle"]
    /\ news_items = [p \in Threads |-> "unset"]
    /\ report_content = [p \in Threads |-> NoReport]
    /\ webhooks_iter = [p \in Threads |-> <<>>]
    /\ idx = [p \in Threads |-> 0]
    /\ calls = [p \in Threads |-> <<>>]
    /\ sent = [p \in Threads |-> <<>>]
    /\ result = [p \in Threads |-> "none"]
    /\ days_used = [p \in Threads |-> <<>>]
    /\ overlap = 0
    /\ schedule_times = <<>>
    /\ scheduler_running = FALSE
    /\ jobs = {}
    /\ config_file = saved_config(feishu_webhooks, <<>>, 1)
    /\ now = 0
    /\ ret = [op |-> "__init__", raised |-> "None", value |-> <<>>,
              logged |-> "None"]

-----------------------------------------------------------------------------
(* run_pipeline *)

\* suspend invocation p at the await of collaborator c
Await(p, c) ==
    /\ pc' = [pc EXCEPT ![p] = c]
    /\ calls' = [calls EXCEPT ![p] = Append(@, c)]

\* a finally clause that the early return on an empty fetch does not pass
FinallyButEarlyReturn(p, res, status) ==
    /\ is_running' = (res = "no data")
    /\ current_status' = status
    /\ pc' = [pc EXCEPT ![p] = "returned"]
    /\ result' = [result EXCEPT ![p] = res]

\* a finally clause that also resets the status
FinallyResetsStatus(p, res, status) ==
    /\ is_running' = FALSE
    /\ current_status' = StatusIdle
    /\ pc' = [pc EXCEPT ![p] = "returned"]
    /\ result' = [result EXCEPT ![p] = res]

\* the finally clause and the return: current_status stays what the run
\* last made it
Finally(p, res, status) ==
    /\ is_running' = FALSE
    /\ current_status' = status
    /\ pc' = [pc EXCEPT ![p] = "returned"]
    /\ result' = [result EXCEPT ![p] = res]

\* a guard placed after the reset of the step log
RejectedAfterReset(p) ==
    /\ pc' = [pc EXCEPT ![p] = "returned"]
    /\ result' = [result EXCEPT ![p] = "rejected"]
    /\ pipeline_steps' = <<>>
    /\ UNCHANGED <<is_running, current_status, feishu_webhooks, days_to_crawl,
                   news_items, report_content, webhooks_iter, idx, calls,
                   sent>>

\* the body of `if self.is_running:`: a warning is logged, then `return`
Rejected(p) ==
    /\ pc' = [pc EXCEPT ![p] = "returned"]
    /\ result' = [result EXCEPT ![p] = "rejected"]
    /\ UNCHANGED <<is_running, current_status, pipeline_steps,
                   feishu_webhooks, days_to_crawl, news_items, report_content,
                   webhooks_iter, idx, calls, sent>>

\* the acceptance, from `self.is_running = True` to the first _add_step;
\* the invocation stands in front of the try block
Accepted(p) ==
    /\ is_running' = TRUE
    /\ pipeline_steps' = add_step(<<>>, "start", "info")
    /\ current_status' = StatusStarting
    /\ pc' = [pc EXCEPT ![p] = "try"]
    /\ UNCHANGED <<feishu_webhooks, days_to_crawl, news_items, report_content,
                   webhooks_iter, idx, calls, sent, result>>

\* the first statements of the try block, up to `await init_db()`
EnterTry(p) ==
    /\ pc[p] = "try"
    /\ current_status' = StatusInitDb
    /\ pipeline_steps' = add_step(pipeline_steps, "init db", "text")
    /\ Await(p, "init_db")
    /\ UNCHANGED <<is_running, feishu_webhooks, days_to_crawl, news_items,
                   report_content, webhooks_iter, idx, sent, result>>

\* `if self.is_running:` read by a thread that may be pre-empted after it
Guard(p) ==
    /\ pc[p] = "idle"
    /\ IF is_running
       THEN Rejected(p)
       ELSE /\ pc' = [pc EXCEPT ![p] = "accepted"]
            /\ UNCHANGED <<is_running, current_status, pipeline_steps,
                           feishu_webhooks, days_to_crawl, news_items,
                           report_content, webhooks_iter, idx, calls, sent,
                           result>>

\* the thread that read is_running false goes on
Accept(p) ==
    /\ pc[p] = "accepted"
    /\ Accepted(p)

\* the guard and the acceptance with no pre-emption between them
GuardAccept(p) ==
    /\ pc[p] = "idle"
    /\ IF is_running THEN Rejected(p) ELSE Accepted(p)

\* `except Exception as e`, entered with the message msg
Except(p, msg) ==
    /\ pipeline_steps' = add_step(pipeline_steps, "failed", "error")
    /\ IF feishu_webhooks # <<>>
       THEN /\ current_status' = StatusError(msg)
            /\ webhooks_iter' = [webhooks_iter EXCEPT ![p] = feishu_webhooks]
            /\ idx' = [idx EXCEPT ![p] = 1]
            /\ pc' = [pc EXCEPT ![p] = "error_send"]
            /\ UNCHANGED <<is_running, result>>
       ELSE /\ Finally(p, "failed", StatusError(msg))
            /\ UNCHANGED <<webhooks_iter, idx>>

\* an awaited collaborator raises
Raises(p) ==
    /\ pc[p] \in Awaited
    /\ Except(p, pc[p])
    /\ UNCHANGED <<feishu_webhooks, days_to_crawl, news_items, report_content,
                   calls, sent>>

\* an error notification loop that logs a notification that raised, as
\* the dispatch loop does
ErrorSendLogsFault(p) ==
    /\ pc[p] = "error_send"
    /\ \E o \in Outcomes :
          /\ sent' = [sent EXCEPT ![p] =
                Append(@, Attempt(webhooks_iter[p][idx[p]], "error", o,
                               FailureText))]
          /\ pipeline_steps' =
                IF o = "raise"
                THEN add_step(pipeline_steps, "send failed", "error")
                ELSE pipeline_steps
    /\ IF idx[p] < Len(webhooks_iter[p])
       THEN /\ idx' = [idx EXCEPT ![p] = @ + 1]
            /\ UNCHANGED <<is_running, current_status, pc, result>>
       ELSE /\ Finally(p, "failed", current_status)
            /\ UNCHANGED idx
    /\ UNCHANGED <<feishu_webhooks, days_to_crawl, news_items,
                   report_content, webhooks_iter, calls>>

\* an error notification loop without the inner try: the first delivery
\* that raises ends the loop
ErrorSendUnguarded(p) ==
    /\ pc[p] = "error_send"
    /\ \E o \in Outcomes :
          /\ sent' = [sent EXCEPT ![p] =
                Append(@, Attempt(webhooks_iter[p][idx[p]], "error", o,
                               FailureText))]
          /\ IF idx[p] < Len(webhooks_iter[p]) /\ o # "raise"
             THEN /\ idx' = [idx EXCEPT ![p] = @ + 1]
                  /\ UNCHANGED <<is_running, current_status, pc, result>>
             ELSE /\ Finally(p, "failed", current_status)
                  /\ UNCHANGED idx
    /\ UNCHANGED <<pipeline_steps, feishu_webhooks, days_to_crawl, news_items,
                   report_content, webhooks_iter, calls>>

\* one iteration of the error notification loop; `except: pass`
ErrorSend(p) ==
    /\ pc[p] = "error_send"
    /\ \E o \in Outcomes :
          sent' = [sent EXCEPT ![p] =
                      Append(@, Attempt(webhooks_iter[p][idx[p]], "error", o,
                               FailureText))]
    /\ IF idx[p] < Len(webhooks_iter[p])
       THEN /\ idx' = [idx EXCEPT ![p] = @ + 1]
            /\ UNCHANGED <<is_running, current_status, pc, result>>
       ELSE /\ Finally(p, "failed", current_status)
            /\ UNCHANGED idx
    /\ UNCHANGED <<pipeline_steps, feishu_webhooks, days_to_crawl, news_items,
                   report_content, webhooks_iter, calls>>

\* the last statements of the try block, then the finally clause
Complete(p, steps) ==
    /\ pipeline_steps' = add_step(steps, "all done", "success")
    /\ Finally(p, "completed", StatusCompleted)
    /\ UNCHANGED <<webhooks_iter, idx>>

\* a dispatch that asks for destinations only
DispatchWithoutReport(p, steps, report) ==
    IF feishu_webhooks # <<>>
    THEN /\ current_status' = StatusSending
         /\ pipeline_steps' = add_step(steps, "sending", "text")
         /\ webhooks_iter' = [webhooks_iter EXCEPT ![p] = feishu_webhooks]
         /\ idx' = [idx EXCEPT ![p] = 1]
         /\ pc' = [pc EXCEPT ![p] = "send"]
         /\ UNCHANGED <<is_running, result>>
    ELSE Complete(p, steps)

\* `if self.feishu_webhooks and report_content:` and what follows it, up
\* to the first delivery or to the end of the run
Dispatch(p, steps, report) ==
    IF feishu_webhooks # <<>> /\ report # NoReport
    THEN /\ current_status' = StatusSending
         /\ pipeline_steps' = add_step(steps, "sending", "text")
         /\ webhooks_iter' = [webhooks_iter EXCEPT ![p] = feishu_webhooks]
         /\ idx' = [idx EXCEPT ![p] = 1]
         /\ pc' = [pc EXCEPT ![p] = "send"]
         /\ UNCHANGED <<is_running, result>>
    ELSE Complete(p, steps)

InitDbReturns(p) ==
    /\ pc[p] = "init_db"
    /\ current_status' = StatusCrawling
    /\ pipeline_steps' = add_step(pipeline_steps, "crawling", "text")
    /\ Await(p, "run_all_crawlers")
    /\ UNCHANGED <<is_running, feishu_webhooks, days_to_crawl, news_items,
                   report_content, webhooks_iter, idx, sent, result>>

CrawlReturns(p) ==
    /\ pc[p] = "run_all_crawlers"
    /\ current_status' = StatusGenerating
    /\ pipeline_steps' =
          add_step(add_step(add_step(pipeline_steps,
              "crawl done", "success"), "generating", "text"),
              "fetching", "text")
    /\ Await(p, "fetch_articles_from_db")
    /\ UNCHANGED <<is_running, feishu_webhooks, days_to_crawl, news_items,
                   report_content, webhooks_iter, idx, sent, result>>

\* an empty fetch that logs the error and goes on to the filter
FetchReturnsGoesOn(p) ==
    /\ pc[p] = "fetch_articles_from_db"
    /\ \E fetched \in {"empty", "items"} :
          /\ news_items' = [news_items EXCEPT ![p] = fetched]
          /\ pipeline_steps' =
                IF fetched = "empty"
                THEN add_step(pipeline_steps, "no data", "error")
                ELSE add_step(add_labelled_step(add_step(pipeline_steps,
                         "fetched", "info"), "source counts", "chart",
                         "sources"), "filtering", "text")
          /\ Await(p, "step1_filter")
          /\ UNCHANGED <<is_running, current_status, result>>
    /\ UNCHANGED <<feishu_webhooks, days_to_crawl, report_content,
                   webhooks_iter, idx, sent>>

\* fetch_articles_from_db returns the list news_items, empty or not
FetchReturns(p) ==
    /\ pc[p] = "fetch_articles_from_db"
    /\ \E fetched \in {"empty", "items"} :
          /\ news_items' = [news_items EXCEPT ![p] = fetched]
          /\ IF fetched = "empty"
             THEN /\ pipeline_steps' =
                        add_step(pipeline_steps, "no data", "error")
                  /\ Finally(p, "no data", current_status)
                  /\ UNCHANGED calls
             ELSE /\ pipeline_steps' =
                        add_step(add_labelled_step(add_step(pipeline_steps,
                            "fetched", "info"), "source counts", "chart",
                            "sources"), "filtering", "text")
                  /\ Await(p, "step1_filter")
                  /\ UNCHANGED <<is_running, current_status, result>>
    /\ UNCHANGED <<feishu_webhooks, days_to_crawl, report_content,
                   webhooks_iter, idx, sent>>

FilterReturns(p) ==
    /\ pc[p] = "step1_filter"
    /\ pipeline_steps' =
          add_step(add_step(pipeline_steps, "filtered", "info"),
                   "clustering", "text")
    /\ Await(p, "step2_cluster")
    /\ UNCHANGED <<is_running, current_status, feishu_webhooks, days_to_crawl,
                   news_items, report_content, webhooks_iter, idx, sent,
                   result>>

ClusterReturns(p) ==
    /\ pc[p] = "step2_cluster"
    /\ pipeline_steps' =
          add_step(add_step(pipeline_steps, "clustered", "info"),
                   "deduplicating", "text")
    /\ Await(p, "step3_deduplicate")
    /\ UNCHANGED <<is_running, current_status, feishu_webhooks, days_to_crawl,
                   news_items, report_content, webhooks_iter, idx, sent,
                   result>>

DeduplicateReturns(p) ==
    /\ pc[p] = "step3_deduplicate"
    /\ pipeline_steps' =
          add_step(add_step(pipeline_steps, "deduplicated", "info"),
                   "ranking", "text")
    /\ Await(p, "step4_rank")
    /\ UNCHANGED <<is_running, current_status, feishu_webhooks, days_to_crawl,
                   news_items, report_content, webhooks_iter, idx, sent,
                   result>>

RankReturns(p) ==
    /\ pc[p] = "step4_rank"
    /\ pipeline_steps' =
          add_step(add_labelled_step(add_step(pipeline_steps,
              "ranked", "info"), "funnel", "dataframe", "funnel"),
              "fetching arxiv", "text")
    /\ Await(p, "step5_fetch_arxiv_papers")
    /\ UNCHANGED <<is_running, current_status, feishu_webhooks, days_to_crawl,
                   news_items, report_content, webhooks_iter, idx, sent,
                   result>>

ArxivReturns(p) ==
    /\ pc[p] = "step5_fetch_arxiv_papers"
    /\ pipeline_steps' =
          add_step(add_step(pipeline_steps, "papers", "info"),
                   "writing", "text")
    /\ Await(p, "generate_final_report")
    /\ UNCHANGED <<is_running, current_status, feishu_webhooks, days_to_crawl,
                   news_items, report_content, webhooks_iter, idx, sent,
                   result>>

\* generate_final_report returns report_content, a text or None; a text is
\* saved by the synchronous save_report_to_file, which returns or raises
GenerateReturns(p) ==
    /\ pc[p] = "generate_final_report"
    /\ \E report \in {NoReport} \cup Reports :
          /\ report_content' = [report_content EXCEPT ![p] = report]
          /\ IF report # NoReport
             THEN \/ /\ pipeline_steps' =
                           add_step(pipeline_steps, "saving", "text")
                     /\ pc' = [pc EXCEPT ![p] = "mark_articles_as_reported"]
                     /\ calls' = [calls EXCEPT ![p] =
                           Append(Append(@, "save_report_to_file"),
                                  "mark_articles_as_reported")]
                     /\ UNCHANGED <<is_running, current_status, webhooks_iter,
                                    idx, result>>
                  \/ /\ Except(p, "save_report_to_file")
                     /\ calls' = [calls EXCEPT ![p] =
                           Append(@, "save_report_to_file")]
             ELSE /\ Dispatch(p, pipeline_steps, report)
                  /\ UNCHANGED calls
    /\ UNCHANGED <<feishu_webhooks, days_to_crawl, news_items, sent>>

MarkReturns(p) ==
    /\ pc[p] = "mark_articles_as_reported"
    /\ Dispatch(p, add_step(pipeline_steps, "saved", "success"),
                report_content[p])
    /\ UNCHANGED <<feishu_webhooks, days_to_crawl, news_items, report_content,
                   calls, sent>>

\* a dispatch loop without the inner try: a delivery that raises reaches
\* the handler of the run
SendUnguarded(p) ==
    /\ pc[p] = "send"
    /\ \E o \in Outcomes :
          /\ sent' = [sent EXCEPT ![p] =
                Append(@, Attempt(webhooks_iter[p][idx[p]], "report", o,
                               report_content[p]))]
          /\ IF o = "raise"
             THEN Except(p, "send")
             ELSE IF idx[p] < Len(webhooks_iter[p])
                  THEN /\ idx' = [idx EXCEPT ![p] = @ + 1]
                       /\ UNCHANGED <<pipeline_steps, is_running,
                                      current_status, pc, webhooks_iter,
                                      result>>
                  ELSE Complete(p, add_step(pipeline_steps, "pushed",
                                            "success"))
    /\ UNCHANGED <<feishu_webhooks, days_to_crawl, news_items, report_content,
                   calls>>

\* one iteration of the dispatch loop: the delivery to one destination
Send(p) ==
    /\ pc[p] = "send"
    /\ \E o \in Outcomes :
          LET steps == IF o = "raise"
                       THEN add_step(pipeline_steps, "send failed", "error")
                       ELSE pipeline_steps
          IN  /\ sent' = [sent EXCEPT ![p] =
                    Append(@, Attempt(webhooks_iter[p][idx[p]], "report", o,
                               report_content[p]))]
              /\ IF idx[p] < Len(webhooks_iter[p])
                 THEN /\ idx' = [idx EXCEPT ![p] = @ + 1]
                      /\ pipeline_steps' = steps
                      /\ UNCHANGED <<is_running, current_status, pc,
                                     webhooks_iter, result>>
                 ELSE Complete(p, add_step(steps, "pushed", "success"))
    /\ UNCHANGED <<feishu_webhooks, days_to_crawl, news_items, report_content,
                   calls>>

\* the caller has its answer; the locals of the invocation are gone
Return(p) ==
    /\ pc[p] = "returned"
    /\ pc' = [pc EXCEPT ![p] = "idle"]
    /\ news_items' = [news_items EXCEPT ![p] = "unset"]
    /\ report_content' = [report_content EXCEPT ![p] = NoReport]
    /\ webhooks_iter' = [webhooks_iter EXCEPT ![p] = <<>>]
    /\ idx' = [idx EXCEPT ![p] = 0]
    /\ calls' = [calls EXCEPT ![p] = <<>>]
    /\ sent' = [sent EXCEPT ![p] = <<>>]
    /\ result' = [result EXCEPT ![p] = "none"]
    /\ days_used' = [days_used EXCEPT ![p] = <<>>]
    /\ UNCHANGED <<is_running, current_status, pipeline_steps,
                   feishu_webhooks, days_to_crawl>>

\* between the guard and the return of an accepted invocation
InFlight(p) == pc[p] \notin {"idle", "returned"}

Overlapping == \E p, q \in Threads : p # q /\ InFlight(p) /\ InFlight(q)

CountOverlap ==
    IF Overlapping
    THEN overlap < MaxOverlapSteps /\ overlap' = overlap + 1
    ELSE UNCHANGED overlap

\* Return only drops the locals of a finished invocation, which no other
\* thread reads, so it commutes with every step of the other threads: it is
\* taken before they go on
Settled == \A q \in Threads : pc[q] # "returned"

\* the calls that are handed `days=self.days_to_crawl`
DaysReaders ==
    {"run_all_crawlers", "fetch_articles_from_db", "generate_final_report"}

\* self.days_to_crawl as a step reads it: an invocation that goes on to
\* one of DaysReaders hands it the lookback, and a pass of the dispatch
\* loop over a flow destination makes the report type of it
PassDays ==
    days_used' =
        [p \in Threads |->
            IF pc'[p] # pc[p] /\ pc'[p] \in DaysReaders
            THEN Append(days_used[p],
                        [by |-> pc'[p], days |-> days_to_crawl])
            ELSE IF /\ Len(sent'[p]) > Len(sent[p])
                    /\ sent'[p][Len(sent'[p])].kind = "report"
                    /\ sent'[p][Len(sent'[p])].shape = "flow"
                 THEN Append(days_used[p],
                             [by |-> "report_type", days |-> days_to_crawl])
                 ELSE days_used[p]]

\* a step of a thread under Spec
ThreadStep(A) ==
    Settled /\ A /\ PassDays /\ CountOverlap
        /\ UNCHANGED <<splitVars, schedVars, limitVars, cardVars>>

\* a step of a thread under FairSpec
LoopStep(A) ==
    Settled /\ A /\ PassDays
        /\ UNCHANGED <<overlap, splitVars, schedVars, limitVars, cardVars>>

\* the stretches of run_pipeline after the acceptance
Proceed(p) ==
    \/ EnterTry(p)
    \/ InitDbReturns(p)
    \/ CrawlReturns(p)
    \/ FetchReturns(p)
    \/ FilterReturns(p)
    \/ ClusterReturns(p)
    \/ DeduplicateReturns(p)
    \/ RankReturns(p)
    \/ ArxivReturns(p)
    \/ GenerateReturns(p)
    \/ MarkReturns(p)
    \/ Send(p)
    \/ Raises(p)
    \/ ErrorSend(p)

InitSplitIdle ==
    /\ content = <<>>
    /\ max_length = 0
    /\ chunks = <<>>
    /\ split_pc = "return"
    /\ document = <<>>
    /\ link_limit = 0
    /\ limited = <<>>
    /\ limit_pc = "return"
    /\ card_text = <<>>
    /\ chunk_list = <<>>
    /\ card_i = 0
    /\ posted = <<>>
    /\ card_pc = "return"

Init == InitRun /\ InitSplitIdle

Next ==
    \/ \E p \in Threads : ThreadStep(Guard(p))
    \/ \E p \in Threads : ThreadStep(Accept(p))
    \/ \E p \in Threads : ThreadStep(EnterTry(p))
    \/ \E p \in Threads : ThreadStep(InitDbReturns(p))
    \/ \E p \in Threads : ThreadStep(CrawlReturns(p))
    \/ \E p \in Threads : ThreadStep(FetchReturns(p))
    \/ \E p \in Threads : ThreadStep(FilterReturns(p))
    \/ \E p \in Threads : ThreadStep(ClusterReturns(p))
    \/ \E p \in Threads : ThreadStep(DeduplicateReturns(p))
    \/ \E p \in Threads : ThreadStep(RankReturns(p))
    \/ \E p \in Threads : ThreadStep(ArxivReturns(p))
    \/ \E p \in Threads : ThreadStep(GenerateReturns(p))
    \/ \E p \in Threads : ThreadStep(MarkReturns(p))
    \/ \E p \in Threads : ThreadStep(Send(p))
    \/ \E p \in Threads : ThreadStep(Raises(p))
    \/ \E p \in Threads : ThreadStep(ErrorSend(p))
    \/ \E p \in Threads :
          Return(p)
              /\ UNCHANGED <<overlap, splitVars, schedVars, limitVars,
                             cardVars>>

Spec == Init /\ [][Next]_vars

NextFair ==
    \/ \E p \in Threads : LoopStep(GuardAccept(p))
    \/ \E p \in Threads : LoopStep(Proceed(p))
    \/ \E p \in Threads :
          Return(p)
              /\ UNCHANGED <<overlap, splitVars, schedVars, limitVars,
                             cardVars>>

\* A collaborator returns or raises, and the event loop resumes the
\* invocation that awaited it.  The fairness is strong because a step waits
\* for the Return of a finished invocation, which is taken at once.
FairSpec ==
    /\ Init
    /\ [][NextFair]_vars
    /\ \A p \in Threads : SF_vars(LoopStep(Proceed(p)))
    /\ \A p \in Threads :
          WF_vars(Return(p)
                    /\ UNCHANGED <<overlap, splitVars, schedVars, limitVars,
                                   cardVars>>)

-----------------------------------------------------------------------------
(* _split_content applied to one content *)

\* a sender that is about to split some content; no run is in progress
InitSplit ==
    /\ content \in Texts
    /\ max_length \in 1..MaxMaxLength
    /\ chunks = <<>>
    /\ split_pc = "call"
    /\ is_running = FALSE
    /\ current_status = StatusIdle
    /\ pipeline_steps = <<>>
    /\ feishu_webhooks = <<>>
    /\ days_to_crawl = 1
    /\ pc = [p \in Threads |-> "idle"]
    /\ news_items = [p \in Threads |-> "unset"]
    /\ report_content = [p \in Threads |-> NoReport]
    /\ webhooks_iter = [p \in Threads |-> <<>>]
    /\ idx = [p \in Threads |-> 0]
    /\ calls = [p \in Threads |-> <<>>]
    /\ sent = [p \in Threads |-> <<>>]
    /\ result = [p \in Threads |-> "none"]
    /\ days_used = [p \in Threads |-> <<>>]
    /\ overlap = 0
    /\ schedule_times = <<>>
    /\ scheduler_running = FALSE
    /\ jobs = {}
    /\ config_file = AbsentFile
    /\ now = 0
    /\ ret = [op |-> "__init__", raised |-> "None", value |-> <<>>,
              logged |-> "None"]
    /\ document = <<>>
    /\ link_limit = 0
    /\ limited = <<>>
    /\ limit_pc = "return"
    /\ card_text = <<>>
    /\ chunk_list = <<>>
    /\ card_i = 0
    /\ posted = <<>>
    /\ card_pc = "return"

SplitContent ==
    /\ split_pc = "call"
    /\ chunks' = split_content(content, max_length)
    /\ split_pc' = "return"
    /\ UNCHANGED <<content, max_length>>
    /\ UNCHANGED <<runVars, schedVars, limitVars, cardVars>>

SplitSpec == InitSplit /\ [][SplitContent]_vars

-----------------------------------------------------------------------------
(* The calls on a constructed manager other than run_pipeline.  They run   *)
(* on their caller's thread; within one behaviour no trigger comes due, so *)
(* the clock stands at the instant the behaviour started at.               *)

\* a call that returned None, or raised the exception; logged is the line
\* save_config logged in it
Returned(op, exception) ==
    [op |-> op, raised |-> exception, value |-> <<>>, logged |-> "None"]

\* a destination list as a caller may type it
BlankUrl == <<Blank>>

PaddedUrl == <<Blank>> \o FlowUrl \o <<Blank>>

UrlLists == {<<>>, <<CardUrl>>, <<BlankUrl, PaddedUrl>>}

\* the arguments of the update_schedule calls: every list of trigger times,
\* and every destination list with every lookback
UpdateCalls ==
    {<<times, <<>>, 1>> : times \in TimeLists} \cup
    {<<<<T0930>>, webhook_urls, days>> :
        webhook_urls \in UrlLists, days \in Days}

\* scheduler.start() really adds the jobs that waited for it
start_scheduler(store, t) ==
    {[j EXCEPT !.next_run_time =
          IF @ = <<>> THEN <<next_fire_time(j.hour, j.minute, t)>> ELSE @] :
        j \in store}

Start ==
    /\ IF ~scheduler_running
       THEN LET applied == apply_schedule(start_scheduler(jobs, now),
                                          schedule_times, TRUE, now)
            IN  /\ scheduler_running' = TRUE
                /\ jobs' = applied.jobs
                /\ ret' = Returned("start", applied.raised)
       ELSE /\ ret' = Returned("start", "None")
            /\ UNCHANGED <<scheduler_running, jobs>>
    /\ UNCHANGED <<schedule_times, config_file, now>>
    /\ UNCHANGED <<runVars, splitVars, limitVars, cardVars>>

\* scheduler.shutdown() stops the scheduler and empties its job store
Stop ==
    /\ IF scheduler_running
       THEN /\ scheduler_running' = FALSE
            /\ jobs' = {}
       ELSE UNCHANGED <<scheduler_running, jobs>>
    /\ ret' = Returned("stop", "None")
    /\ UNCHANGED <<schedule_times, config_file, now>>
    /\ UNCHANGED <<runVars, splitVars, limitVars, cardVars>>

UpdateSchedule(times, webhook_urls, days) ==
    /\ feishu_webhooks' = strip_all(webhook_urls)
    /\ schedule_times' = strip_all(times)
    /\ days_to_crawl' = days
    /\ \E outcome \in WriteOutcomes :
          LET saved == save_config(config_file, feishu_webhooks',
                                   schedule_times', days_to_crawl', outcome)
              applied == apply_schedule(jobs, schedule_times',
                                        scheduler_running, now)
          IN  /\ config_file' = saved.file
              /\ jobs' = applied.jobs
              /\ ret' = [Returned("update_schedule", applied.raised)
                            EXCEPT !.logged = saved.logged]
    /\ UNCHANGED <<scheduler_running, now>>
    /\ UNCHANGED <<is_running, current_status, pipeline_steps, pc, news_items,
                   report_content, webhooks_iter, idx, calls, sent, result,
                   overlap, days_used>>
    /\ UNCHANGED <<splitVars, limitVars, cardVars>>

\* the earliest of a non-empty set of instants
min(instants) == CHOOSE t \in instants : \A u \in instants : t <= u

\* get_status: reading next_run_time of a job that still waits for the
\* scheduler to start raises AttributeError
GetStatus ==
    /\ ret' =
          IF \E j \in jobs : j.next_run_time = <<>>
          THEN Returned("get_status", "AttributeError")
          ELSE [op |-> "get_status", raised |-> "None",
                value |->
                   [is_running |-> is_running,
                    current_status |-> current_status,
                    next_run_time |->
                        IF jobs = {}
                        THEN <<>>
                        ELSE <<min({j.next_run_time[1] : j \in jobs})>>,
                    webhook_configured |-> Len(feishu_webhooks) > 0,
                    feishu_webhooks |-> feishu_webhooks,
                    schedule_times |-> schedule_times,
                    pipeline_steps |-> pipeline_steps],
                logged |-> "None"]
    /\ UNCHANGED <<schedule_times, scheduler_running, jobs, config_file, now>>
    /\ UNCHANGED <<runVars, splitVars, limitVars, cardVars>>

\* a manager constructed on one of the seed files, no run in progress
SeedFiles ==
    {AbsentFile,
     saved_config(<<CardUrl>>, <<T2359, T2500>>, 7),
     ConfigRecord("json", <<>>, <<FlowUrl>>, <<>>, <<T0930>>, <<>>)}

InitSched ==
    /\ config_file \in SeedFiles
    /\ feishu_webhooks = load_config(config_file, <<>>, <<>>, 1).feishu_webhooks
    /\ schedule_times = load_config(config_file, <<>>, <<>>, 1).schedule_times
    /\ days_to_crawl = load_config(config_file, <<>>, <<>>, 1).days_to_crawl
    /\ scheduler_running = FALSE
    /\ jobs = {}
    /\ now \in Instants
    /\ ret = Returned("__init__", "None")
    /\ is_running = FALSE
    /\ current_status = StatusIdle
    /\ pipeline_steps = <<>>
    /\ pc = [p \in Threads |-> "idle"]
    /\ news_items = [p \in Threads |-> "unset"]
    /\ report_content = [p \in Threads |-> NoReport]
    /\ webhooks_iter = [p \in Threads |-> <<>>]
    /\ idx = [p \in Threads |-> 0]
    /\ calls = [p \in Threads |-> <<>>]
    /\ sent = [p \in Threads |-> <<>>]
    /\ result = [p \in Threads |-> "none"]
    /\ days_used = [p \in Threads |-> <<>>]
    /\ overlap = 0
    /\ content = <<>>
    /\ max_length = 0
    /\ chunks = <<>>
    /\ split_pc = "return"
    /\ document = <<>>
    /\ link_limit = 0
    /\ limited = <<>>
    /\ limit_pc = "return"
    /\ card_text = <<>>
    /\ chunk_list = <<>>
    /\ card_i = 0
    /\ posted = <<>>
    /\ card_pc = "return"

NextSched ==
    \/ Start
    \/ Stop
    \/ \E call \in UpdateCalls : UpdateSchedule(call[1], call[2], call[3])
    \/ GetStatus

SchedSpec == InitSched /\ [][NextSched]_vars

\* the update_schedule calls made while runs go on: one trigger time, a
\* destination list and a lookback
RunUpdates ==
    {<<<<T0930>>, webhook_urls, days>> :
        webhook_urls \in {<<CardUrl>>, <<BlankUrl, PaddedUrl>>}, days \in Days}

\* update_schedule is called on the manager while the threads of the
\* scheduler carry runs: between two stretches of a run the call is made
\* whole
NextUpdate ==
    \/ \E p \in Threads : LoopStep(GuardAccept(p))
    \/ \E p \in Threads : LoopStep(Proceed(p))
    \/ \E p \in Threads :
          Return(p)
              /\ UNCHANGED <<overlap, splitVars, schedVars, limitVars,
                             cardVars>>
    \/ \E call \in RunUpdates : UpdateSchedule(call[1], call[2], call[3])

UpdateSpec == Init /\ [][NextUpdate]_vars

\* a manager about to rebuild its jobs from a list of entries, with the
\* jobs of an earlier configuration in the scheduler or none
InitApply ==
    /\ schedule_times \in EntryLists
    /\ scheduler_running \in BOOLEAN
    /\ now \in Instants
    /\ jobs \in {{}, apply_schedule({}, <<T2359, T2359, T0930>>,
                                    scheduler_running, now).jobs}
    /\ ret = Returned("__init__", "None")
    /\ config_file = AbsentFile
    /\ feishu_webhooks = <<>>
    /\ days_to_crawl = 1
    /\ is_running = FALSE
    /\ current_status = StatusIdle
    /\ pipeline_steps = <<>>
    /\ pc = [p \in Threads |-> "idle"]
    /\ news_items = [p \in Threads |-> "unset"]
    /\ report_content = [p \in Threads |-> NoReport]
    /\ webhooks_iter = [p \in Threads |-> <<>>]
    /\ idx = [p \in Threads |-> 0]
    /\ calls = [p \in Threads |-> <<>>]
    /\ sent = [p \in Threads |-> <<>>]
    /\ result = [p \in Threads |-> "none"]
    /\ days_used = [p \in Threads |-> <<>>]
    /\ overlap = 0
    /\ content = <<>>
    /\ max_length = 0
    /\ chunks = <<>>
    /\ split_pc = "return"
    /\ document = <<>>
    /\ link_limit = 0
    /\ limited = <<>>
    /\ limit_pc = "return"
    /\ card_text = <<>>
    /\ chunk_list = <<>>
    /\ card_i = 0
    /\ posted = <<>>
    /\ card_pc = "return"

ApplySchedule ==
    /\ ret.op = "__init__"
    /\ LET applied == apply_schedule(jobs, schedule_times,
                                     scheduler_running, now)
       IN  /\ jobs' = applied.jobs
           /\ ret' = Returned("_apply_schedule", applied.raised)
    /\ UNCHANGED <<schedule_times, scheduler_running, config_file, now>>
    /\ UNCHANGED <<runVars, splitVars, limitVars, cardVars>>

ApplySpec == InitApply /\ [][ApplySchedule]_vars

\* a manager in __init__, about to call load_config
InitLoad ==
    /\ config_file \in ConfigFiles
    /\ feishu_webhooks = <<>>
    /\ schedule_times = <<>>
    /\ days_to_crawl = 1
    /\ scheduler_running = FALSE
    /\ jobs = {}
    /\ now = 0
    /\ ret = Returned("__init__", "None")
    /\ is_running = FALSE
    /\ current_status = StatusIdle
    /\ pipeline_steps = <<>>
    /\ pc = [p \in Threads |-> "idle"]
    /\ news_items = [p \in Threads |-> "unset"]
    /\ report_content = [p \in Threads |-> NoReport]
    /\ webhooks_iter = [p \in Threads |-> <<>>]
    /\ idx = [p \in Threads |-> 0]
    /\ calls = [p \in Threads |-> <<>>]
    /\ sent = [p \in Threads |-> <<>>]
    /\ result = [p \in Threads |-> "none"]
    /\ days_used = [p \in Threads |-> <<>>]
    /\ overlap = 0
    /\ content = <<>>
    /\ max_length = 0
    /\ chunks = <<>>
    /\ split_pc = "return"
    /\ document = <<>>
    /\ link_limit = 0
    /\ limited = <<>>
    /\ limit_pc = "return"
    /\ card_text = <<>>
    /\ chunk_list = <<>>
    /\ card_i = 0
    /\ posted = <<>>
    /\ card_pc = "return"

LoadConfig ==
    /\ ret.op = "__init__"
    /\ LET loaded == load_config(config_file, feishu_webhooks,
                                 schedule_times, days_to_crawl)
       IN  /\ feishu_webhooks' = loaded.feishu_webhooks
           /\ schedule_times' = loaded.schedule_times
           /\ days_to_crawl' = loaded.days_to_crawl
    /\ ret' = Returned("load_config", "None")
    /\ UNCHANGED <<scheduler_running, jobs, config_file, now>>
    /\ UNCHANGED <<is_running, current_status, pipeline_steps, pc, news_items,
                   report_content, webhooks_iter, idx, calls, sent, result,
                   overlap, days_used>>
    /\ UNCHANGED <<splitVars, limitVars, cardVars>>

LoadSpec == InitLoad /\ [][LoadConfig]_vars

-----------------------------------------------------------------------------
(* _limit_reference_links applied to one document *)

\* a sender about to limit the links of a document; no run is in progress
InitLimit ==
    /\ document \in Documents
    /\ link_limit \in Limits
    /\ limited = <<>>
    /\ limit_pc = "call"
    /\ card_text = <<>>
    /\ chunk_list = <<>>
    /\ card_i = 0
    /\ posted = <<>>
    /\ card_pc = "return"
    /\ content = <<>>
    /\ max_length = 0
    /\ chunks = <<>>
    /\ split_pc = "return"
    /\ is_running = FALSE
    /\ current_status = StatusIdle
    /\ pipeline_steps = <<>>
    /\ feishu_webhooks = <<>>
    /\ days_to_crawl = 1
    /\ pc = [p \in Threads |-> "idle"]
    /\ news_items = [p \in Threads |-> "unset"]
    /\ report_content = [p \in Threads |-> NoReport]
    /\ webhooks_iter = [p \in Threads |-> <<>>]
    /\ idx = [p \in Threads |-> 0]
    /\ calls = [p \in Threads |-> <<>>]
    /\ sent = [p \in Threads |-> <<>>]
    /\ result = [p \in Threads |-> "none"]
    /\ days_used = [p \in Threads |-> <<>>]
    /\ overlap = 0
    /\ schedule_times = <<>>
    /\ scheduler_running = FALSE
    /\ jobs = {}
    /\ config_file = AbsentFile
    /\ now = 0
    /\ ret = Returned("__init__", "None")

LimitReferenceLinks ==
    /\ limit_pc = "call"
    /\ limited' = limit_reference_links(document, link_limit)
    /\ limit_pc' = "return"
    /\ UNCHANGED <<document, link_limit>>
    /\ UNCHANGED <<runVars, splitVars, schedVars, cardVars>>

LimitSpec == InitLimit /\ [][LimitReferenceLinks]_vars

-----------------------------------------------------------------------------
(* send_markdown applied to one text: the loop over the chunks.  A post is *)
(* the card handed to client.post and what came of it, a pause is          *)
(* asyncio.sleep(1).                                                       *)

\* the texts a run hands to send_markdown
CardTexts == Reports \cup {FailureText}

\* what one client.post can do: answer code 0, answer another code, or
\* raise (a transport fault, a bad status), which the loop catches
PostOutcomes == {"ok", "code", "fault"}

\* f"{title} ({i+1}/{len(chunks)})" if len(chunks) > 1 else title
card_title(i, n) == IF n > 1 THEN <<"title", i, n>> ELSE <<"title">>

Post(i, n, text, outcome) ==
    [event |-> "post", title |-> card_title(i, n), text |-> text,
     outcome |-> outcome]

Pause == [event |-> "sleep", title |-> <<>>, text |-> <<>>, outcome |-> "ok"]

\* a sender with a URL that is about to send a text; no run is in progress
InitCard ==
    /\ document = <<>>
    /\ link_limit = 0
    /\ limited = <<>>
    /\ limit_pc = "return"
    /\ card_text \in CardTexts
    /\ chunk_list = <<>>
    /\ card_i = 0
    /\ posted = <<>>
    /\ card_pc = "call"
    /\ content = <<>>
    /\ max_length = 0
    /\ chunks = <<>>
    /\ split_pc = "return"
    /\ is_running = FALSE
    /\ current_status = StatusIdle
    /\ pipeline_steps = <<>>
    /\ feishu_webhooks = <<>>
    /\ days_to_crawl = 1
    /\ pc = [p \in Threads |-> "idle"]
    /\ news_items = [p \in Threads |-> "unset"]
    /\ report_content = [p \in Threads |-> NoReport]
    /\ webhooks_iter = [p \in Threads |-> <<>>]
    /\ idx = [p \in Threads |-> 0]
    /\ calls = [p \in Threads |-> <<>>]
    /\ sent = [p \in Threads |-> <<>>]
    /\ result = [p \in Threads |-> "none"]
    /\ days_used = [p \in Threads |-> <<>>]
    /\ overlap = 0
    /\ schedule_times = <<>>
    /\ scheduler_running = FALSE
    /\ jobs = {}
    /\ config_file = AbsentFile
    /\ now = 0
    /\ ret = Returned("__init__", "None")

\* the text is formatted and split, and the loop is entered
SendMarkdown ==
    /\ card_pc = "call"
    /\ chunk_list' =
          split_content(join_lines(convert_markdown_to_feishu_format(
              card_text)), MaxCardLength)
    /\ card_i' = 1
    /\ card_pc' = "post"
    /\ UNCHANGED <<card_text, posted>>
    /\ UNCHANGED <<runVars, splitVars, schedVars, limitVars>>

\* a loop that a post that raised ends
PostCardGivesUp ==
    /\ card_pc = "post"
    /\ \E o \in PostOutcomes :
          /\ posted' = Append(posted, Post(card_i, Len(chunk_list),
                                          chunk_list[card_i], o))
          /\ card_pc' = IF o = "fault" THEN "return" ELSE "sleep"
    /\ UNCHANGED <<card_text, chunk_list, card_i>>
    /\ UNCHANGED <<runVars, splitVars, schedVars, limitVars>>

\* the card of one chunk is built and posted inside try ... except
PostCard ==
    /\ card_pc = "post"
    /\ \E o \in PostOutcomes :
          posted' = Append(posted, Post(card_i, Len(chunk_list),
                                       chunk_list[card_i], o))
    /\ card_pc' = "sleep"
    /\ UNCHANGED <<card_text, chunk_list, card_i>>
    /\ UNCHANGED <<runVars, splitVars, schedVars, limitVars>>

\* await asyncio.sleep(1), and the loop goes on or ends
Sleep ==
    /\ card_pc = "sleep"
    /\ posted' = Append(posted, Pause)
    /\ IF card_i < Len(chunk_list)
       THEN card_i' = card_i + 1 /\ card_pc' = "post"
       ELSE card_pc' = "return" /\ UNCHANGED card_i
    /\ UNCHANGED <<card_text, chunk_list>>
    /\ UNCHANGED <<runVars, splitVars, schedVars, limitVars>>

NextCard == SendMarkdown \/ PostCard \/ Sleep

CardSpec == InitCard /\ [][NextCard]_vars

-----------------------------------------------------------------------------
(* Claims about run_pipeline *)

\* past the acceptance and before the finally clause
Running(p) == pc[p] \in Awaited \cup {"send", "error_send"}

\* the thread p takes the step
Steps(p) == pc'[p] # pc[p] \/ idx'[p] # idx[p]

\* the step in which the accepted run of p ends
Ends(p) == InFlight(p) /\ pc'[p] = "returned"

\* C1: at most one pipeline execution is between its acceptance and its
\* finally clause at any moment, whatever the interleaving of the threads.
C1_AtMostOneRunInFlight ==
    Cardinality({p \in Threads : Running(p)}) <= 1

\* C2: an invocation that reads is_running true returns at once, raises
\* nothing, leaves pipeline_steps, current_status and is_running as they
\* were, invokes no collaborator and sends nothing.
C2_RejectedChangesNothing ==
    [][\A p \in Threads :
          (pc[p] = "idle" /\ is_running /\ Steps(p)) =>
              /\ pc'[p] = "returned"
              /\ result'[p] = "rejected"
              /\ UNCHANGED <<pipeline_steps, current_status, is_running>>
              /\ UNCHANGED <<calls, sent>>
              /\ calls[p] = <<>>
              /\ sent[p] = <<>>]_vars

\* an invocation was rejected while another run had written its steps
C2_Witness ==
    \E p, q \in Threads :
        /\ pc[p] = "returned"
        /\ result[p] = "rejected"
        /\ pc[q] = "step2_cluster"
        /\ is_running
        /\ Len(pipeline_steps) > 2

C4_StatusIdleAfterRun ==
    \A p \in Threads :
        (pc[p] = "returned" /\ result[p] # "rejected") =>
            current_status = StatusIdle

\* C4 as amended: the end of a run leaves current_status other than Idle
\* (Completed after a completed run), and a status other than Idle never
\* becomes Idle again.
C4_StatusOutlivesRun ==
    [][/\ \A p \in Threads :
             Ends(p) =>
                 /\ current_status' # StatusIdle
                 /\ result'[p] = "completed" =>
                        current_status' = StatusCompleted
       /\ current_status # StatusIdle => current_status' # StatusIdle]_vars

\* a completed run has returned and the status still reads Completed
C4_Witness ==
    \E p \in Threads :
        /\ pc[p] = "returned"
        /\ result[p] = "completed"
        /\ current_status = StatusCompleted
        /\ ~is_running

\* the destinations of a sequence of delivery attempts, in order
Targets(attempts) == [i \in 1..Len(attempts) |-> attempts[i].url]

AllOfKind(attempts, kind) ==
    \A i \in 1..Len(attempts) : attempts[i].kind = kind

\* the collaborators of a run in the order of the source
StageOrder ==
    <<"init_db", "run_all_crawlers", "fetch_articles_from_db",
      "step1_filter", "step2_cluster", "step3_deduplicate", "step4_rank",
      "step5_fetch_arxiv_papers", "generate_final_report",
      "save_report_to_file", "mark_articles_as_reported">>

IsPrefix(s, t) == Len(s) <= Len(t) /\ s = SubSeq(t, 1, Len(s))

\* the step in which a collaborator call of p raises
Fails(p) ==
    /\ pc[p] \in Awaited
    /\ \/ pc'[p] = "error_send"
       \/ pc'[p] = "returned" /\ result'[p] = "failed"

\* C5: when a collaborator call of an accepted run raises, the run sets
\* current_status to Error(message), appends an error step, invokes no
\* later stage, and attempts exactly one error notification to every
\* configured destination.
C5_FailureIsReportedOnce ==
    /\ [][\A p \in Threads :
             /\ Fails(p) =>
                   /\ current_status' = StatusError(calls'[p][Len(calls'[p])])
                   /\ pipeline_steps' =
                         Append(pipeline_steps, Step("failed", "error", "None"))
                   /\ IsPrefix(calls'[p], StageOrder)
                   /\ sent'[p] = <<>>
                   /\ webhooks_iter'[p] =
                         IF pc'[p] = "error_send" THEN feishu_webhooks
                         ELSE <<>>
                   /\ pc'[p] = "returned" => feishu_webhooks = <<>>
             /\ pc[p] = "error_send" =>
                   /\ calls'[p] = calls[p] \/ pc'[p] = "idle"
                   /\ \/ webhooks_iter'[p] = webhooks_iter[p]
                      \/ pc'[p] = "idle"]_vars
    /\ [](\A p \in Threads :
             /\ pc[p] = "error_send" =>
                   /\ Targets(sent[p]) =
                         SubSeq(webhooks_iter[p], 1, idx[p] - 1)
                   /\ AllOfKind(sent[p], "error")
             /\ (pc[p] = "returned" /\ result[p] = "failed") =>
                   /\ Targets(sent[p]) = webhooks_iter[p]
                   /\ AllOfKind(sent[p], "error"))

\* the clustering of a run raised, the first error notification raised as
\* well, and both destinations were notified
C5_Witness ==
    \E p \in Threads :
        /\ pc[p] = "returned"
        /\ result[p] = "failed"
        /\ calls[p][Len(calls[p])] = "step2_cluster"
        /\ Len(sent[p]) = 2
        /\ sent[p][1].outcome = "raise"
        /\ pipeline_steps[Len(pipeline_steps)].type = "error"

\* C6: in the report dispatch a failed delivery (transport fault, non-zero
\* code, or an exception out of the sender) never keeps another destination
\* from its delivery attempt, and the run still reaches Completed.
C6_DeliveriesAreIsolated ==
    /\ [][\A p \in Threads :
             (pc[p] = "send" /\ Steps(p)) =>
                 /\ Len(sent'[p]) = Len(sent[p]) + 1
                 /\ IF idx[p] < Len(webhooks_iter[p])
                    THEN pc'[p] = "send" /\ idx'[p] = idx[p] + 1
                    ELSE /\ pc'[p] = "returned"
                         /\ result'[p] = "completed"
                         /\ current_status' = StatusCompleted]_vars
    /\ [](\A p \in Threads :
             /\ pc[p] = "send" =>
                   /\ idx[p] \in 1..Len(webhooks_iter[p])
                   /\ Targets(sent[p]) =
                         SubSeq(webhooks_iter[p], 1, idx[p] - 1)
             /\ (pc[p] = "returned" /\ result[p] = "completed"
                     /\ sent[p] # <<>>) =>
                   /\ Targets(sent[p]) = webhooks_iter[p]
                   /\ AllOfKind(sent[p], "report"))

\* the delivery to the first destination raised, the second destination
\* had its attempt, and the run completed
C6_Witness ==
    \E p \in Threads :
        /\ pc[p] = "returned"
        /\ result[p] = "completed"
        /\ Len(sent[p]) = 2
        /\ sent[p][1].outcome = "raise"
        /\ sent[p][2].url # sent[p][1].url
        /\ current_status = StatusCompleted

\* C7: when the fetch of an accepted run returns no item, the run ends
\* (is_running false) with an error step appended, and no filter, cluster,
\* deduplicate, rank, reference, report, persist or notification
\* collaborator is invoked in it.
C7_EmptyFetchEndsRun ==
    /\ [][\A p \in Threads :
             (pc[p] = "fetch_articles_from_db" /\ news_items'[p] = "empty") =>
                 /\ pc'[p] = "returned"
                 /\ ~is_running'
                 /\ pipeline_steps' =
                       Append(pipeline_steps,
                              Step("no data", "error", "None"))]_vars
    /\ [](\A p \in Threads :
             news_items[p] = "empty" =>
                 /\ pc[p] = "returned"
                 /\ calls[p] = SubSeq(StageOrder, 1, 3)
                 /\ sent[p] = <<>>)

\* a run has ended on an empty fetch
C7_Witness ==
    \E p \in Threads :
        /\ news_items[p] = "empty"
        /\ pc[p] = "returned"
        /\ result[p] = "no data"
        /\ ~is_running
        /\ pipeline_steps[Len(pipeline_steps)].type = "error"

-----------------------------------------------------------------------------
(* Claims about _split_content *)

\* the chunks joined in order with nothing between them
RECURSIVE Joined(_)
Joined(list) ==
    IF list = <<>> THEN <<>> ELSE Head(list) \o Joined(Tail(list))

\* the source lines of a content: a newline ends a line, so a content that
\* ends with a newline has no further line after it
SourceLines(text) ==
    LET pieces == split_newline(text)
    IN  IF pieces[Len(pieces)] = <<>>
        THEN SubSeq(pieces, 1, Len(pieces) - 1)
        ELSE pieces

\* C8: every chunk of _split_content(C, L) is at most L long, unless one
\* source line of C alone is longer than L.
C8_ChunksWithinBound ==
    split_pc = "return" =>
        \/ \A i \in 1..Len(chunks) : Len(chunks[i]) <= max_length
        \/ \E i \in 1..Len(SourceLines(content)) :
              Len(SourceLines(content)[i]) > max_length

\* C9: the chunks of _split_content(C, L), joined in order, are C, or C
\* and one newline when the last line of C has no newline after it.
C9_ChunksReproduceContent ==
    split_pc = "return" =>
        \/ Joined(chunks) = content
        \/ /\ content # <<>>
           /\ content[Len(content)] # NL
           /\ Joined(chunks) = Append(content, NL)

\* C10: when len(C) <= L, _split_content(C, L) is the one-element list
\* [C], with C as it was.
C10_ShortContentIsOneChunk ==
    (split_pc = "return" /\ Len(content) <= max_length) =>
        chunks = <<content>>

\* a content of exactly the bound, with no newline at its end, came back
\* as the only chunk
C10_Witness ==
    /\ split_pc = "return"
    /\ Len(content) = max_length
    /\ content[Len(content)] # NL
    /\ \E i \in 1..Len(content) : content[i] = NL
    /\ chunks = <<content>>

-----------------------------------------------------------------------------
(* Claims about the schedule and the configuration *)

\* the entry gets a job: it is not empty and its trigger is made
Scheduled(entry) == entry # <<>> /\ parse_time(entry).raised = "None"

JobId(i) == <<"daily_report_job", i - 1>>

\* the job set is one job per scheduled entry of times, under the id of
\* the entry's position and with the entry's time of day, and nothing else
JobsMatch(store, times) ==
    /\ \A i \in 1..Len(times) :
          Scheduled(times[i]) =>
              \E j \in store :
                  /\ j.id = JobId(i)
                  /\ j.hour = parse_time(times[i]).hour
                  /\ j.minute = parse_time(times[i]).minute
    /\ \A j \in store :
          \E i \in 1..Len(times) : Scheduled(times[i]) /\ j.id = JobId(i)
    /\ Cardinality(store) =
          Cardinality({i \in 1..Len(times) : Scheduled(times[i])})

\* C11: after every update_schedule or start call the job set of the
\* scheduler is exactly one job per valid entry of the current
\* schedule_times, under the id of the entry's list position, so no job of
\* an earlier configuration is left.
C11_JobsMatchSchedule ==
    ret.op \in {"update_schedule", "start"} =>
        JobsMatch(jobs, schedule_times)

\* the scheduler ran the two jobs of the seed file; an update whose write
\* failed at open() then left one job, for the second entry of the new list
C11_Witness ==
    /\ ret.op = "update_schedule"
    /\ scheduler_running
    /\ config_file = saved_config(<<CardUrl>>, <<T2359, T2500>>, 7)
    /\ schedule_times = <<T2500, T2359>>
    /\ \E j \in jobs : jobs = {j} /\ j.id = JobId(2)

\* the text is HH:MM: two digits, a colon, two digits, 00..23 and 00..59
ValidHHMM(entry) ==
    /\ Len(entry) = 5
    /\ entry[3] = ":"
    /\ \A i \in {1, 2, 4, 5} : entry[i] \in Digits
    /\ DigitValue(entry[1]) * 10 + DigitValue(entry[2]) <= 23
    /\ DigitValue(entry[4]) * 10 + DigitValue(entry[5]) <= 59

HasJob(store, i) == \E j \in store : j.id = JobId(i)

\* the field is digits, with blanks around them and a sign before them or
\* not, and the number they spell is at most the limit
SpellsUpTo(field, limit) ==
    LET t == strip(field)
        body == IF t # <<>> /\ t[1] \in {"+", "-"} THEN Tail(t) ELSE t
    IN  /\ body # <<>>
        /\ \A i \in 1..Len(body) : body[i] \in Digits
        /\ digits_value(body) <= limit
        /\ t[1] = "-" => digits_value(body) = 0

\* the text is two such fields with one colon between them
SpellsTime(entry) ==
    \E k \in 1..Len(entry) :
        /\ entry[k] = ":"
        /\ \A i \in 1..Len(entry) : entry[i] = ":" => i = k
        /\ SpellsUpTo(SubSeq(entry, 1, k - 1), 23)
        /\ SpellsUpTo(SubSeq(entry, k + 1, Len(entry)), 59)

\* C12 as stated: _apply_schedule never raises, an entry that is not a
\* valid HH:MM with 0 <= HH <= 23 and 0 <= MM <= 59 gets no job, and
\* every valid entry gets its job, before or after a malformed one.
C12_MalformedSkipped ==
    ret.op = "_apply_schedule" =>
        /\ ret.raised = "None"
        /\ \A i \in 1..Len(schedule_times) :
              HasJob(jobs, i) <=> ValidHHMM(schedule_times[i])

\* C12 as amended: _apply_schedule never raises; an entry gets its job
\* exactly when it is two fields with one colon between them that int()
\* reads as an hour 0..23 and a minute 0..59, blanks around a field and a
\* sign before it accepted; so every valid HH:MM gets its job at HH:MM,
\* before or after a skipped entry, and every other entry is skipped.
C12_UnreadableSkipped ==
    ret.op = "_apply_schedule" =>
        /\ ret.raised = "None"
        /\ \A i \in 1..Len(schedule_times) :
              /\ HasJob(jobs, i) <=> SpellsTime(schedule_times[i])
              /\ ValidHHMM(schedule_times[i]) =>
                    \E j \in jobs :
                        /\ j.id = JobId(i)
                        /\ j.hour = DigitValue(schedule_times[i][1]) * 10
                                        + DigitValue(schedule_times[i][2])
                        /\ j.minute = DigitValue(schedule_times[i][4]) * 10
                                          + DigitValue(schedule_times[i][5])

\* 25:00 was skipped and 09:30 after it got the only job
C12_Witness ==
    /\ ret.op = "_apply_schedule"
    /\ ret.raised = "None"
    /\ schedule_times = <<T2500, T0930>>
    /\ ~HasJob(jobs, 1)
    /\ \E j \in jobs : jobs = {j} /\ j.id = JobId(2) /\ j.hour = 9

\* the file holds the three fields as given
Persisted(file, webhooks, times, days) ==
    /\ file.kind = "json"
    /\ file.feishu_webhooks = <<webhooks>>
    /\ file.schedule_times = <<times>>
    /\ file.days_to_crawl = <<days>>

\* C13 as stated: after every update_schedule call the persisted
\* configuration equals the in-memory one (destinations, trigger times,
\* lookback days), also when the write to the file failed.
C13_PersistedEqualsMemory ==
    ret.op = "update_schedule" =>
        Persisted(config_file, feishu_webhooks, schedule_times,
                  days_to_crawl)

\* the write of an update failed on a running scheduler: the job runs at
\* 09:30 with lookback 7 while the file still holds the seed configuration
C13_TriggersFromUnsavedConfig ==
    /\ ret.op = "update_schedule"
    /\ ret.logged = "Failed to save config"
    /\ scheduler_running
    /\ schedule_times = <<T0930>>
    /\ days_to_crawl = 7
    /\ HasJob(jobs, 1)
    /\ Persisted(config_file, <<CardUrl>>, <<T2359, T2500>>, 7)

\* what the claim gives a list field: the stored list, or the legacy
\* scalar as its only element when the list is empty or missing and the
\* scalar is present and not empty
Reconciled(list, scalar) ==
    LET stored == IF list = <<>> THEN <<>> ELSE list[1]
    IN  IF stored = <<>> /\ scalar # <<>> /\ scalar[1] # <<>>
        THEN <<scalar[1]>>
        ELSE stored

\* C14: load_config leaves the defaults (no destination, no trigger time,
\* lookback 1) and raises nothing when the file is absent; otherwise it
\* yields the stored lists, an empty or missing list replaced by the legacy
\* scalar as its only element when that scalar is present and not empty,
\* and a non-empty list never overridden by the legacy scalar.
C14_LoadReconcilesLegacy ==
    ret.op = "load_config" =>
        /\ ret.raised = "None"
        /\ config_file.kind = "absent" =>
              /\ feishu_webhooks = <<>>
              /\ schedule_times = <<>>
              /\ days_to_crawl = 1
        /\ config_file.kind = "json" =>
              /\ feishu_webhooks =
                    Reconciled(config_file.feishu_webhooks,
                               config_file.feishu_webhook)
              /\ schedule_times =
                    Reconciled(config_file.schedule_times,
                               config_file.schedule_time)
              /\ config_file.feishu_webhooks \notin {<<>>, <<<<>>>>} =>
                    feishu_webhooks = config_file.feishu_webhooks[1]
              /\ config_file.schedule_times \notin {<<>>, <<<<>>>>} =>
                    schedule_times = config_file.schedule_times[1]
              /\ days_to_crawl =
                    IF config_file.days_to_crawl = <<>>
                    THEN 1
                    ELSE config_file.days_to_crawl[1]

\* a file with no destination list, a legacy destination, a trigger list
\* and a legacy trigger time was loaded: the legacy destination became the
\* list, the trigger list stayed
C14_Witness ==
    /\ ret.op = "load_config"
    /\ config_file.feishu_webhooks = <<>>
    /\ config_file.feishu_webhook = <<FlowUrl>>
    /\ config_file.schedule_times = <<<<T0930>>>>
    /\ config_file.schedule_time = <<T2359>>
    /\ feishu_webhooks = <<FlowUrl>>
    /\ schedule_times = <<T0930>>

\* the next occurrence of the entry's time of day after the instant t
NextOccurrence(entry, t) ==
    CHOOSE u \in (t + 1)..(t + DayMinutes) :
        u % DayMinutes =
            parse_time(entry).hour * 60 + parse_time(entry).minute

\* C17: get_status never fails; its next_run_time is none when the
\* scheduler has no job, and otherwise the earliest upcoming fire time of
\* the jobs, which after an application is the earliest next occurrence
\* among the valid entries of schedule_times and lies in the future.
C17_NextRunIsEarliest ==
    ret.op = "get_status" =>
        /\ ret.raised = "None"
        /\ jobs = {} => ret.value.next_run_time = <<>>
        /\ jobs # {} =>
              /\ ret.value.next_run_time # <<>>
              /\ ret.value.next_run_time[1] > now
              /\ \E i \in 1..Len(schedule_times) :
                    /\ Scheduled(schedule_times[i])
                    /\ ret.value.next_run_time[1] =
                          NextOccurrence(schedule_times[i], now)
              /\ \A i \in 1..Len(schedule_times) :
                    Scheduled(schedule_times[i]) =>
                        ret.value.next_run_time[1] <=
                            NextOccurrence(schedule_times[i], now)

-----------------------------------------------------------------------------
(* Claims about _limit_reference_links *)

\* a heading of the second level
IsSection(line) == Len(line) >= 3 /\ SubSeq(line, 1, 3) = <<"#", "#", Blank>>

\* the position of the j-th sub-heading of a body
SubHeadingAt(body, j) ==
    CHOOSE i \in 1..Len(body) :
        /\ is_sub_header(body[i])
        /\ Cardinality({k \in 1..(i - 1) : is_sub_header(body[k])}) = j - 1

\* the bullet lines under the j-th sub-heading of a body, in order
BulletsUnder(body, j) ==
    LET s == SubHeadingAt(body, j)
        later == {i \in (s + 1)..Len(body) : is_sub_header(body[i])}
        t == IF later = {}
             THEN Len(body) + 1
             ELSE CHOOSE i \in later : \A k \in later : i <= k
    IN  SelectSeq(SubSeq(body, s + 1, t - 1), is_link)

\* body_out is body_in with the same sub-headings and, under each, the
\* first n of its bullet lines
Limited(body_in, body_out, n) ==
    /\ SelectSeq(body_out, is_sub_header) = SelectSeq(body_in, is_sub_header)
    /\ \A j \in 1..Len(SelectSeq(body_in, is_sub_header)) :
          BulletsUnder(body_out, j) = first(BulletsUnder(body_in, j), n)

\* C16: with limit N the result keeps every sub-heading of the
\* further-reading section and under each the first N of its bullet lines,
\* in order, and leaves every other section as it was: the sections before
\* the further-reading heading, and the sections from the next heading of
\* the second level on.  (Documents with one further-reading heading or
\* none; blank lines after the last section are not counted.)
C16_OnlyFurtherReadingLimited ==
    LET refs == {i \in 1..Len(document) : is_ref_header(document[i])}
        r == CHOOSE i \in refs : TRUE
        n == Len(document)
        ends == {i \in (r + 1)..n : IsSection(document[i])}
        e == IF ends = {}
             THEN n + 1
             ELSE CHOOSE i \in ends : \A k \in ends : i <= k
    IN  limit_pc = "return" =>
            /\ refs = {} => limited = document
            /\ Cardinality(refs) = 1 =>
                  /\ Len(limited) >= r
                  /\ SubSeq(limited, 1, r) = SubSeq(document, 1, r)
                  /\ \E k \in (r + 1)..(Len(limited) + 1) :
                        /\ k + n - e <= Len(limited)
                        /\ SubSeq(limited, k, k + n - e) =
                              SubSeq(document, e, n)
                        /\ \A i \in (k + n - e + 1)..Len(limited) :
                              strip(limited[i]) = <<>>
                        /\ Limited(SubSeq(document, r + 1, e - 1),
                                   SubSeq(limited, r + 1, k - 1),
                                   link_limit)

-----------------------------------------------------------------------------
(* Claims about the payloads *)

\* the texts of some payloads, one after the other
RECURSIVE Carried(_)
Carried(payloads) ==
    IF payloads = <<>>
    THEN <<>>
    ELSE Head(payloads).text \o Carried(Tail(payloads))

\* the characters of the formatted report of an invocation
Formatted(p) == join_lines(convert_markdown_to_feishu_format(report_content[p]))

\* C15: on a run that produces a non-empty report, every delivery of the
\* report to a destination whose URL holds flow/api/trigger-webhook posts
\* one payload of the flow shape with the raw text of the report, and every
\* delivery to another destination posts payloads of the card shape only,
\* one for every chunk of the formatted report, which together carry the
\* formatted report (and at most a newline after it); no delivery posts
\* both shapes, and a run that completed has delivered to every configured
\* destination in turn.  (A delivery that raises has posted nothing.)
C15_PayloadShapeByDestination ==
    \A p \in Threads :
        /\ \A i \in 1..Len(sent[p]) :
              LET a == sent[p][i]
              IN  a.kind = "report" /\ a.outcome # "raise" =>
                    /\ report_content[p] # NoReport
                    /\ \A k, l \in 1..Len(a.payloads) :
                          a.payloads[k].msg_type = a.payloads[l].msg_type
                    /\ IF \E k \in 1..(Len(a.url) - 2) :
                             SubSeq(a.url, k, k + 2) = FlowMarker
                       THEN /\ Len(a.payloads) = 1
                            /\ a.payloads[1].msg_type = "text"
                            /\ a.payloads[1].text =
                                  join_lines(report_content[p])
                       ELSE /\ \A k \in 1..Len(a.payloads) :
                                  a.payloads[k].msg_type = "interactive"
                            /\ Len(a.payloads) =
                                  Len(split_content(Formatted(p),
                                                    MaxCardLength))
                            /\ Carried(a.payloads) \in
                                  {Formatted(p), Append(Formatted(p), NL)}
        /\ result[p] = "completed" /\ report_content[p] # NoReport =>
              Targets(sent[p]) = webhooks_iter[p]

\* a run has posted the raw report to a flow destination and, in more than
\* one card, the formatted report to another destination
C15_Witness ==
    \E p \in Threads :
        /\ Len(sent[p]) = 2
        /\ result[p] = "completed"
        /\ Formatted(p) # join_lines(report_content[p])
        /\ sent[p][1].shape = "flow" /\ Len(sent[p][1].payloads) = 1
        /\ sent[p][2].shape = "card" /\ Len(sent[p][2].payloads) > 1

-----------------------------------------------------------------------------
(* Claims about the course of one run *)

\* the invocation was accepted and has not ended
InRun(p) == pc[p] \in Awaited \cup {"try", "send", "error_send"}

\* C18: between the acceptance of a run and its end the step log only grows
\* at its tail: over every step that begins and ends inside a run, the log
\* before the step is a prefix of the log after it, whichever thread took
\* the step.
C18_StepsOnlyAppended ==
    [][(\E p \in Threads : InRun(p) /\ InRun(p)')
           => IsPrefix(pipeline_steps, pipeline_steps')]_vars

\* C19: an accepted run that has not yet invoked its first collaborator,
\* the initialisation of the storage, finds is_running true, the status
\* Starting, and in the step log nothing but what the run itself has
\* emitted, which is its first entry.
C19_AcceptedStateBeforeInitDb ==
    \A p \in Threads :
        pc[p] = "try" =>
            /\ is_running
            /\ current_status = StatusStarting
            /\ pipeline_steps = <<Step("start", "info", "None")>>

\* the collaborator an invocation has invoked last
LastCall(p) == calls[p][Len(calls[p])]

\* C20: within one run the collaborators are invoked in the order of the
\* source, and one is invoked only by the step in which the one before it
\* returned; the report is saved and its items marked only if a report was
\* produced, and the report is dispatched only if it exists and a
\* destination is configured, and only after it was saved and its items
\* were marked.
C20_StagesInOrder ==
    /\ [](\A p \in Threads :
             /\ IsPrefix(calls[p], StageOrder)
             /\ (\E i \in 1..Len(calls[p]) :
                    calls[p][i] \in {"save_report_to_file",
                                     "mark_articles_as_reported"})
                   => report_content[p] # NoReport
             /\ (pc[p] = "send" \/ \E i \in 1..Len(sent[p]) :
                                       sent[p][i].kind = "report")
                   => /\ report_content[p] # NoReport
                      /\ webhooks_iter[p] # <<>>
                      /\ calls[p] = StageOrder
                      /\ pc[p] # LastCall(p))
    /\ [][\A p \in Threads :
             (calls'[p] # calls[p] /\ calls'[p] # <<>>) =>
                 /\ IsPrefix(calls[p], calls'[p])
                 /\ IF calls[p] = <<>>
                    THEN pc[p] = "try"
                    ELSE pc[p] = LastCall(p)]_vars

\* a run went through every stage, saved its report and dispatched it
C20_Witness ==
    \E p \in Threads :
        /\ result[p] = "completed"
        /\ calls[p] = StageOrder
        /\ sent[p] # <<>>
        /\ sent[p][1].kind = "report"

-----------------------------------------------------------------------------
(* Further claims about _split_content *)

\* C25: _split_content(C, L) returns no empty chunk, whatever the content C
\* and the bound L, a first line of C of L characters or more included.
\* (Stated for the contents that are not empty themselves.)
C25_NoEmptyChunk ==
    (split_pc = "return" /\ content # <<>>) =>
        \A i \in 1..Len(chunks) : chunks[i] # <<>>

-----------------------------------------------------------------------------
(* Further claims about run_pipeline *)

\* the status is one that StatusError makes
IsErrorStatus(status) == Len(status) = 2 /\ status[1] = "Error"

\* C23: the step in which a run ends because the fetch returned no item
\* leaves an Error status as the recorded status, not the label of the
\* stage the run started last.
C23_EmptyFetchEndsAsError ==
    [][\A p \in Threads :
          (pc[p] = "fetch_articles_from_db" /\ news_items'[p] = "empty")
              => IsErrorStatus(current_status')]_vars

\* C22: on the failure path a fault of one error notification is swallowed:
\* the step that attempts a notification, whatever comes of the attempt,
\* leaves the recorded status and the step log as they were and goes on to
\* the next destination, or after the last one ends the run, which returns
\* to its caller as failed; a failed run has attempted every destination.
C22_NotificationFaultSwallowed ==
    /\ [][\A p \in Threads :
             (pc[p] = "error_send" /\ Steps(p)) =>
                 /\ Len(sent'[p]) = Len(sent[p]) + 1
                 /\ pipeline_steps' = pipeline_steps
                 /\ current_status' = current_status
                 /\ IF idx[p] < Len(webhooks_iter[p])
                    THEN pc'[p] = "error_send" /\ idx'[p] = idx[p] + 1
                    ELSE pc'[p] = "returned" /\ result'[p] = "failed"]_vars
    /\ [](\A p \in Threads :
             (pc[p] = "returned" /\ result[p] = "failed") =>
                 Len(sent[p]) = Len(webhooks_iter[p]))

\* a run failed with the status Error; of its two error notifications the
\* first met a transport fault and the second raised
C22_Witness ==
    \E p \in Threads :
        /\ pc[p] = "returned"
        /\ result[p] = "failed"
        /\ Len(sent[p]) = 2
        /\ sent[p][1].outcome = "fault"
        /\ sent[p][2].outcome = "raise"
        /\ IsErrorStatus(current_status)
        /\ pipeline_steps[Len(pipeline_steps)] =
              Step("failed", "error", "None")

\* C26: in one run no destination is sent both the report and an error
\* notification: a run that has begun to dispatch its report goes on
\* dispatching or completes, and a run on the failure path, or ended as
\* failed, has delivered error notifications only.
C26_ReportOrErrorNotBoth ==
    /\ [](\A p \in Threads :
             /\ AllOfKind(sent[p], "report") \/ AllOfKind(sent[p], "error")
             /\ (pc[p] = "error_send" \/ result[p] = "failed")
                   => AllOfKind(sent[p], "error")
             /\ pc[p] = "send" => AllOfKind(sent[p], "report"))
    /\ [][\A p \in Threads :
             (pc[p] = "send" /\ Steps(p)) =>
                 \/ pc'[p] = "send"
                 \/ pc'[p] = "returned" /\ result'[p] = "completed"]_vars

\* a run produced a report, failed before the dispatch and notified both
\* destinations of the error
C26_Witness ==
    \E p \in Threads :
        /\ pc[p] = "returned"
        /\ result[p] = "failed"
        /\ report_content[p] # NoReport
        /\ Len(sent[p]) = 2
        /\ AllOfKind(sent[p], "error")


-----------------------------------------------------------------------------
\* C21: send_markdown sends the chunks of one text one after another in
\* chunk order, the card of chunk i carrying that chunk, with a pause after
\* every send and so between every two consecutive sends; the title carries
\* the suffix (i/total) with the 1-based position exactly when there is
\* more than one chunk; and whatever comes of the send of chunk i, chunk
\* i+1 is sent: at the return every chunk has been sent once.
C21_ChunksSentInOrderWithPauses ==
    card_pc # "call" =>
        LET n == Len(chunk_list)
        IN  /\ \A k \in 1..Len(posted) :
                  IF k % 2 = 1
                  THEN /\ posted[k].event = "post"
                       /\ posted[k].text = chunk_list[(k + 1) \div 2]
                       /\ posted[k].title =
                              IF n > 1 THEN <<"title", (k + 1) \div 2, n>>
                                       ELSE <<"title">>
                  ELSE posted[k].event = "sleep"
            /\ card_pc = "post" => Len(posted) = 2 * (card_i - 1)
            /\ card_pc = "sleep" => Len(posted) = 2 * card_i - 1
            /\ card_pc = "return" => Len(posted) = 2 * n

\* a text of several chunks has been sent, the send of its first chunk
\* raised, and the second chunk was sent after the pause
C21_Witness ==
    /\ card_pc = "return"
    /\ Len(chunk_list) > 1
    /\ posted[1].outcome = "fault"
    /\ posted[2].event = "sleep"
    /\ posted[3].event = "post"
    /\ posted[3].title = <<"title", 2, Len(chunk_list)>>


-----------------------------------------------------------------------------
\* C24: within one accepted run the crawl, the item fetch, the report
\* generation and the report-type label all use the same lookback value,
\* and the dispatch loop delivers to one destination list, position by
\* position, even when update_schedule changes days_to_crawl and the
\* destinations while the run is in flight.
C24_OneLookbackOneListPerRun ==
    \A p \in Threads :
        /\ \A i, j \in 1..Len(days_used[p]) :
              days_used[p][i].days = days_used[p][j].days
        /\ \A i \in 1..Len(sent[p]) :
              sent[p][i].kind = "report" =>
                  /\ i <= Len(webhooks_iter[p])
                  /\ sent[p][i].url = webhooks_iter[p][i]

====
